---- MODULE Spec2Model ----
(***************************************************************************)
(* A model of the caddydhcp app (lion7/caddydhcp): the dual-stack DHCP     *)
(* dispatcher (App.Start / App.Stop, dhcpServer.handle4 / handle6), the    *)
(* handler chain engine (handlerChain.Handle4 / Handle6) and the handlers  *)
(* the chain is assembled from.                                            *)
(*                                                                         *)
(* One server is modelled (App.servers holds one dhcpServer); the loops    *)
(* over servers in Start and Stop then run once.  The closures built by    *)
(* handlerChain capture the loop variable i per iteration (Go >= 1.22).    *)
(***************************************************************************)
EXTENDS Integers, Sequences, FiniteSets, TLC

\* ------------------------------------------------------------------ bounds

\* longest handler chain configured for the single-request specification
MaxChain == 3
\* number of datagrams that arrive during one run of the lifecycle
MaxDatagrams == 2

\* ------------------------------------------------------------ configuration

\* the handler modules without state of their own that a chain is assembled
\* from
HandlerKinds == {"netmask", "serverid", "messagelog", "sleep"}

\* all handler sequences of length at most n over HandlerKinds
RECURSIVE SeqsUpTo(_)
SeqsUpTo(n) ==
    IF n = 0 THEN {<<>>}
    ELSE LET shorter == SeqsUpTo(n - 1)
         IN  shorter \cup {Append(s, k) : s \in {x \in shorter : Len(x) = n - 1}, k \in HandlerKinds}

\* s.addresses of the provisioned server, in configuration order: one bind
\* address of each family
Addresses == <<"udp4", "udp6">>

\* s.interfaces of the provisioned server: the configured bind interfaces
\* (Provision puts <<"">>, all interfaces, for an empty list)
Interfaces == <<"eth0", "eth1">>

\* --------------------------------------------------------------- messages

\* the absent message (a nil *dhcpv4.DHCPv4 / *dhcpv6.Message, nothing written)
NoMsg == [type |-> "nil"]

\* DHCPv4 message types a client can send; "Decline" stands for every type
\* other than Discover and Request
MessageTypes4 == {"Discover", "Request", "Decline"}

\* DHCPv6 inner message types; "Advertise" stands for every type the
\* dispatcher and the serverid handler do not name
MessageTypes6 == {"Solicit", "Request", "Confirm", "Renew", "Rebind", "Release",
                  "InformationRequest", "Decline", "Advertise"}

\* well-formed DHCPv4 datagrams: message type, op code, siaddr header
\* (relative to the configured server id) and whether the peer has an IP
Datagrams4 ==
    [fam : {4}, wf : {TRUE}, mt : MessageTypes4, op : {"BootRequest", "BootReply"},
     siaddr : {"zero", "mine", "other"}, peer : {"zero", "client"}]

\* a datagram dhcpv4.FromBytes rejects
Malformed4 ==
    [fam |-> 4, wf |-> FALSE, mt |-> "Decline", op |-> "BootRequest",
     siaddr |-> "zero", peer |-> "client"]

\* well-formed DHCPv6 datagrams: outer is a plain message or a relay message;
\* inner: GetInnerMessage succeeds; mt/rapid/sid describe the inner message;
\* build: the reply constructor succeeds; wrap: NewRelayReplFromRelayForw
\* succeeds.  Attributes that cannot matter are pinned to one value.
Datagrams6 ==
    { d \in [fam : {6}, wf : {TRUE}, relay : BOOLEAN, inner : BOOLEAN,
             mt : MessageTypes6, rapid : BOOLEAN, sid : {"none", "mine", "other"},
             build : BOOLEAN, wrap : BOOLEAN, peer : {"client"}] :
        /\ (d.mt # "Solicit" => ~d.rapid)
        /\ (~d.relay => d.inner /\ d.wrap)
        /\ (~d.inner => d.mt = "Solicit" /\ d.sid = "none" /\ d.build /\ d.wrap) }

\* a datagram dhcpv6.FromBytes rejects
Malformed6 ==
    [fam |-> 6, wf |-> FALSE, relay |-> FALSE, inner |-> TRUE, mt |-> "Solicit",
     rapid |-> FALSE, sid |-> "none", build |-> TRUE, wrap |-> TRUE, peer |-> "client"]

VARIABLES
    chain,      \* handlerChain.handlers of the server: a sequence of handler kinds
    app,        \* "provisioned" | "starting" | "started" | "failed": progress of
                \* App.Start ("failed": it returned a listen error)
    conns,      \* s.connections: sequence of [net, addr, iface, closed]; addr is
                \* the index of the bound address, iface "" for all interfaces
    ltask,      \* the listener tasks of app.errGroup, one per connection
    egErr,      \* the first non-nil error a task of app.errGroup returned
    stop,       \* the call of App.Stop: [pc, i, result]
    tasks,      \* the handle tasks (go s.handle4 / go s.handle6), in spawn order
    narrived,   \* number of datagrams read so far
    now,        \* time.Now(), in lease-time units
    rng,        \* the range handler module of the chain (NoModule: none configured)
    file,       \* the file handler module of the chain (NoModule: none configured)
    pfx,        \* the prefix handler module of the chain (NoModule: none configured)
    srv,        \* the server's access logging: [logs, accessLog]
    cmp         \* a call of samePrefix: [a, b, res], res "none" until it
                \* returns "true" or "false" (NoCall: no call)

vars == <<chain, app, conns, ltask, egErr, stop, tasks, narrived, now, rng, file, pfx, srv,
          cmp>>

\* the state of the stateful handler modules and the clock they read
mods == <<now, rng, file, pfx>>

\* a handler module that is not part of the configuration
NoModule == [state |-> "none"]

\* App.Provision, the access logger of the server it builds: s.accessLog is
\* set (TRUE) when srv.Logs is, and nil (FALSE) otherwise
Provision_accessLog(logs) == logs

\* App.Provision as the second copy of the dispatcher has it: s.accessLog is
\* logger.Named("access") whatever srv.Logs is
Provision_accessLog_always(logs) == TRUE

\* the server provisioned without access logging
\* no call of samePrefix under way
NoCall == [res |-> "none"]

NoAccessLog == [logs |-> FALSE, accessLog |-> Provision_accessLog(FALSE)]

\* ------------------------------------------------------- codec and options

\* dhcpv4.NewReplyFromRequest: the reply skeleton, no message type yet
NewReplyFromRequest(req) ==
    [fam |-> 4, yiaddr |-> "zero", opts |-> [MessageType |-> "None"]]

UpdateOption_keep(resp, code, value) ==
    IF code \in DOMAIN resp.opts
    THEN resp
    ELSE [resp EXCEPT !.opts = [c \in (DOMAIN resp.opts) \cup {code} |->
                                   IF c = code THEN value ELSE resp.opts[c]]]

\* resp.UpdateOption(opt): replace-or-add by option code (DHCPv4 and DHCPv6)
UpdateOption(resp, code, value) ==
    [resp EXCEPT !.opts = [c \in (DOMAIN resp.opts) \cup {code} |->
                              IF c = code THEN value ELSE resp.opts[c]]]

\* dhcpv6.NewReplyFromMessage: a Reply keyed to the request's client id
NewReplyFromMessage(req) ==
    [fam |-> 6, type |-> "Reply", opts |-> [ClientID |-> "client"]]

\* dhcpv6.NewAdvertiseFromSolicit
NewAdvertiseFromSolicit(req) ==
    [fam |-> 6, type |-> "Advertise", opts |-> [ClientID |-> "client"]]

\* dhcpv6.NewRelayReplFromRelayForw(outer, resp): resp inside a Relay-Repl
NewRelayReplFromRelayForw(outer, resp) ==
    [fam |-> 6, type |-> "RelayRepl", inner |-> resp]

\* ---------------------------------------------------------------- handlers
\* Each handler's Handle4 / Handle6 gives the set of its possible outcomes
\* [resp, out]: the response as the handler left it and what it did:
\*   "next"  it returned next() (every handler of the repository that calls
\*           next returns next()'s result unchanged);
\*   "nil"   it returned nil without calling next;
\*   other   it returned that error without calling next.

netmask_Handle4(req, resp) ==
    {[resp |-> UpdateOption(resp, "SubnetMask", "netmask"), out |-> "next"]}

netmask_Handle6(req, resp) ==
    {[resp |-> resp, out |-> "next"]}

sleep_Handle4(req, resp) ==
    {[resp |-> resp, out |-> "next"]}

sleep_Handle6(req, resp) ==
    {[resp |-> resp, out |-> "next"]}

\* fmt.Fprintf to the log file either succeeds or fails (Provision ignores
\* os.Create's error, so the file may be nil)
messagelog_Handle4(req, resp) ==
    {[resp |-> resp, out |-> "next"], [resp |-> resp, out |-> "ErrLog"]}

messagelog_Handle6(req, resp) ==
    {[resp |-> resp, out |-> "next"], [resp |-> resp, out |-> "ErrLog"]}

\* serverid with both id and duid configured
serverid_Handle4(req, resp) ==
    IF req.op # "BootRequest"
    THEN {[resp |-> resp, out |-> "next"]}
    ELSE IF req.siaddr = "other"
    THEN {[resp |-> resp, out |-> "nil"]}
    ELSE {[resp |-> UpdateOption(resp, "ServerIdentifier", "mine"), out |-> "next"]}

serverid_Handle6_lax(req, resp) ==
    IF req.sid # "none"
    THEN IF req.mt \in {"Solicit", "Confirm"}
         THEN {[resp |-> resp, out |-> "nil"]}
         ELSE IF req.sid # "mine"
         THEN {[resp |-> resp, out |-> "nil"]}
         ELSE {[resp |-> UpdateOption(resp, "ServerID", "mine"), out |-> "next"]}
    ELSE IF req.mt \in {"Request", "Renew", "Decline", "Release"}
    THEN {[resp |-> resp, out |-> "nil"]}
    ELSE {[resp |-> UpdateOption(resp, "ServerID", "mine"), out |-> "next"]}

serverid_Handle6(req, resp) ==
    IF req.sid # "none"
    THEN IF req.mt \in {"Solicit", "Confirm", "Rebind"}
         THEN {[resp |-> resp, out |-> "nil"]}
         ELSE IF req.sid # "mine"
         THEN {[resp |-> resp, out |-> "nil"]}
         ELSE {[resp |-> UpdateOption(resp, "ServerID", "mine"), out |-> "next"]}
    ELSE IF req.mt \in {"Request", "Renew", "Decline", "Release"}
    THEN {[resp |-> resp, out |-> "nil"]}
    ELSE {[resp |-> UpdateOption(resp, "ServerID", "mine"), out |-> "next"]}

\* The option handlers read two things of a request: req.requested, the
\* option codes c for which req.IsOptionRequested(c) holds, and (DHCPv4)
\* req.autoconf, whether req.AutoConfigure() finds the option.

\* the handler modules that only set options
OptionKinds == {"netmaskB", "autoconfigure", "ipv6only", "leasetime", "mtu", "router",
                "dns", "searchdomains", "staticroute"}

\* a second netmask module, configured with another mask
netmaskB_Handle4(req, resp) ==
    {[resp |-> UpdateOption(resp, "SubnetMask", "netmaskB"), out |-> "next"]}

netmaskB_Handle6(req, resp) ==
    {[resp |-> resp, out |-> "next"]}

autoconfigure_Handle4(req, resp) ==
    IF resp.opts["MessageType"] # "Offer" \/ resp.yiaddr # "zero"
    THEN {[resp |-> resp, out |-> "next"]}
    ELSE IF req.autoconf
    THEN {[resp |-> UpdateOption(resp, "AutoConfigure", "autoConfigure"), out |-> "next"]}
    ELSE {[resp |-> resp, out |-> "nil"]}

autoconfigure_Handle6(req, resp) ==
    {[resp |-> resp, out |-> "next"]}

ipv6only_Handle4_stop(req, resp) ==
    IF "IPv6OnlyPreferred" \in req.requested
    THEN {[resp |-> UpdateOption(resp, "IPv6OnlyPreferred", "wait"), out |-> "nil"]}
    ELSE {[resp |-> resp, out |-> "next"]}

ipv6only_Handle4(req, resp) ==
    IF "IPv6OnlyPreferred" \in req.requested
    THEN {[resp |-> UpdateOption(resp, "IPv6OnlyPreferred", "wait"), out |-> "next"]}
    ELSE {[resp |-> resp, out |-> "next"]}

ipv6only_Handle6(req, resp) ==
    {[resp |-> resp, out |-> "next"]}

leasetime_Handle4(req, resp) ==
    IF req.op # "BootRequest" /\ "IPAddressLeaseTime" \in req.requested
    THEN {[resp |-> UpdateOption(resp, "IPAddressLeaseTime", "time"), out |-> "next"]}
    ELSE {[resp |-> resp, out |-> "next"]}

leasetime_Handle6(req, resp) ==
    {[resp |-> resp, out |-> "next"]}

mtu_Handle4(req, resp) ==
    IF "InterfaceMTU" \in req.requested
    THEN {[resp |-> UpdateOption(resp, "InterfaceMTU", "mtu"), out |-> "next"]}
    ELSE {[resp |-> resp, out |-> "next"]}

mtu_Handle6(req, resp) ==
    {[resp |-> resp, out |-> "next"]}

router_Handle4(req, resp) ==
    {[resp |-> UpdateOption(resp, "Router", "routers"), out |-> "next"]}

router_Handle6(req, resp) ==
    {[resp |-> resp, out |-> "next"]}

dns_Handle4(req, resp) ==
    IF "DomainNameServer" \in req.requested
    THEN {[resp |-> UpdateOption(resp, "DomainNameServer", "servers4"), out |-> "next"]}
    ELSE {[resp |-> resp, out |-> "next"]}

dns_Handle6(req, resp) ==
    IF "DNSRecursiveNameServer" \in req.requested
    THEN {[resp |-> UpdateOption(resp, "DNSRecursiveNameServer", "servers6"), out |-> "next"]}
    ELSE {[resp |-> resp, out |-> "next"]}

searchdomains_Handle4(req, resp) ==
    IF "DNSDomainSearchList" \in req.requested
    THEN {[resp |-> UpdateOption(resp, "DNSDomainSearchList", "domains"), out |-> "next"]}
    ELSE {[resp |-> resp, out |-> "next"]}

searchdomains_Handle6(req, resp) ==
    IF "DomainSearchList" \in req.requested
    THEN {[resp |-> UpdateOption(resp, "DomainSearchList", "domains"), out |-> "next"]}
    ELSE {[resp |-> resp, out |-> "next"]}

\* staticroute asks whether the name-server option is requested
staticroute_Handle4(req, resp) ==
    IF "DomainNameServer" \in req.requested
    THEN {[resp |-> UpdateOption(resp, "ClasslessStaticRoute", "routes"), out |-> "next"]}
    ELSE {[resp |-> resp, out |-> "next"]}

staticroute_Handle6(req, resp) ==
    {[resp |-> resp, out |-> "next"]}

\* c.handlers[i].Handle4(req, resp, nextCopy): dispatch on the handler's type
Handle4(kind, req, resp) ==
    CASE kind = "netmask"    -> netmask_Handle4(req, resp)
      [] kind = "serverid"   -> serverid_Handle4(req, resp)
      [] kind = "messagelog" -> messagelog_Handle4(req, resp)
      [] kind = "sleep"      -> sleep_Handle4(req, resp)
      [] kind = "netmaskB"   -> netmaskB_Handle4(req, resp)
      [] kind = "autoconfigure" -> autoconfigure_Handle4(req, resp)
      [] kind = "ipv6only"   -> ipv6only_Handle4(req, resp)
      [] kind = "leasetime"  -> leasetime_Handle4(req, resp)
      [] kind = "mtu"        -> mtu_Handle4(req, resp)
      [] kind = "router"     -> router_Handle4(req, resp)
      [] kind = "dns"        -> dns_Handle4(req, resp)
      [] kind = "searchdomains" -> searchdomains_Handle4(req, resp)
      [] kind = "staticroute" -> staticroute_Handle4(req, resp)

\* c.handlers[i].Handle6(req, resp, nextCopy)
Handle6(kind, req, resp) ==
    CASE kind = "netmask"    -> netmask_Handle6(req, resp)
      [] kind = "serverid"   -> serverid_Handle6(req, resp)
      [] kind = "messagelog" -> messagelog_Handle6(req, resp)
      [] kind = "sleep"      -> sleep_Handle6(req, resp)
      [] kind = "netmaskB"   -> netmaskB_Handle6(req, resp)
      [] kind = "autoconfigure" -> autoconfigure_Handle6(req, resp)
      [] kind = "ipv6only"   -> ipv6only_Handle6(req, resp)
      [] kind = "leasetime"  -> leasetime_Handle6(req, resp)
      [] kind = "mtu"        -> mtu_Handle6(req, resp)
      [] kind = "router"     -> router_Handle6(req, resp)
      [] kind = "dns"        -> dns_Handle6(req, resp)
      [] kind = "searchdomains" -> searchdomains_Handle6(req, resp)
      [] kind = "staticroute" -> staticroute_Handle6(req, resp)

\* ------------------------------------------------------------ handler chain
\* A closure next_i = func() error { return c.handlers[i].Handle(req, resp,
\* nextCopy) } is the pair (i, nextCopy); a chain of such pairs is written as
\* the sequence of their handler indices, and <<>> is the terminal next the
\* dispatcher passes in (func() error { return nil }).

\* the loop of handlerChain.Handle4 / Handle6 from index i down to 1, starting
\* with the closure next: nextCopy := next; next = closure(i, nextCopy)
RECURSIVE handlerChain_loop_ascending(_, _)
handlerChain_loop_ascending(i, next) ==
    IF i < 1 THEN next ELSE handlerChain_loop_ascending(i - 1, next \o <<i>>)

RECURSIVE handlerChain_loop(_, _)
handlerChain_loop(i, next) ==
    IF i < 1 THEN next ELSE handlerChain_loop(i - 1, <<i>> \o next)

\* the closure handlerChain.Handle4 / Handle6 finally calls (return next())
handlerChain_next(n) == handlerChain_loop(n, <<>>)

\* ------------------------------------------------------------ handle tasks
\* A handle task (one goroutine per datagram) is a record
\*   lid     the connection the datagram was read from
\*   seq     the arrival number of the datagram
\*   m       the parsed datagram
\*   peer    the address the response is written to
\*   pc      "start" | "call" | "unwind" | "done"
\*   resp    the response the chain works on (NoMsg before it is built)
\*   cl      the closure about to be called (pc = "call")
\*   stack   indices of the handlers whose next() call has not returned yet
\*   res     the error value being returned ("nil" for none)
\*   events  what happened so far: <<"enter", i>>, <<"terminal", 0>>,
\*           <<"return", i>> (handler i's next() returned and it returns)
\*   stopAt  index of the handler that returned without calling next (0: none)
\*   out     what that handler returned ("nil" or its error)
\*   wcall   conn.WriteTo was called for this request
\*   loc     locals of the stateful handler the task is in or was in last
\*   sent    what conn.WriteTo delivered to the peer
\*   alog    number of access-log entries written for the request

NotSent == [dst |-> "nobody", msg |-> NoMsg]

\* the locals of a handler that runs in several steps, when the task is in
\* none
NoLocals == [at |-> "none"]

\* the task spawned by `go s.handle4(conn, upeer, m)` / `go s.handle6(...)`
NewTask(l, n, d, upeer) ==
    [lid |-> l, seq |-> n, m |-> d, peer |-> upeer, pc |-> "start", resp |-> NoMsg,
     cl |-> <<>>, stack |-> <<>>, res |-> "nil", events |-> <<>>, stopAt |-> 0,
     out |-> "nil", wcall |-> FALSE, sent |-> NotSent, loc |-> NoLocals, alog |-> 0]

TaskIds == 1..Len(tasks)

\* handle4 / handle6 return: the deferred function writes the access-log
\* entry when s.accessLog is set
Return(task) ==
    IF srv.accessLog
    THEN [task EXCEPT !.pc = "done", !.alog = @ + 1]
    ELSE [task EXCEPT !.pc = "done"]

NotTasks == <<cmp, srv, chain, app, conns, ltask, egErr, stop, narrived, mods>>

handle4_swapped(t) ==
    /\ tasks[t].pc = "start"
    /\ tasks[t].m.fam = 4
    /\ LET req  == tasks[t].m
           resp == NewReplyFromRequest(req)
       IN  tasks' =
             CASE req.mt = "Discover" ->
                    [tasks EXCEPT ![t].resp = UpdateOption(resp, "MessageType", "Ack"),
                                  ![t].cl = handlerChain_next(Len(chain)),
                                  ![t].pc = "call"]
               [] req.mt = "Request" ->
                    [tasks EXCEPT ![t].resp = UpdateOption(resp, "MessageType", "Offer"),
                                  ![t].cl = handlerChain_next(Len(chain)),
                                  ![t].pc = "call"]
               [] OTHER ->
                    [tasks EXCEPT ![t] = Return([@ EXCEPT !.resp = resp])]
    /\ UNCHANGED NotTasks

\* dhcpServer.handle4 up to the call of the chain's first closure: build the
\* reply, set its message type from the request's, compile the chain
handle4(t) ==
    /\ tasks[t].pc = "start"
    /\ tasks[t].m.fam = 4
    /\ LET req  == tasks[t].m
           resp == NewReplyFromRequest(req)
       IN  tasks' =
             CASE req.mt = "Discover" ->
                    [tasks EXCEPT ![t].resp = UpdateOption(resp, "MessageType", "Offer"),
                                  ![t].cl = handlerChain_next(Len(chain)),
                                  ![t].pc = "call"]
               [] req.mt = "Request" ->
                    [tasks EXCEPT ![t].resp = UpdateOption(resp, "MessageType", "Ack"),
                                  ![t].cl = handlerChain_next(Len(chain)),
                                  ![t].pc = "call"]
               [] OTHER ->
                    [tasks EXCEPT ![t] = Return([@ EXCEPT !.resp = resp])]
    /\ UNCHANGED NotTasks

Skeleton6_outer(req) ==
    IF ~req.build \/ req.relay THEN NoMsg
    ELSE CASE req.mt = "Solicit" ->
                IF req.rapid THEN NewReplyFromMessage(req) ELSE NewAdvertiseFromSolicit(req)
           [] req.mt \in {"Request", "Confirm", "Renew", "Rebind", "Release",
                          "InformationRequest"} -> NewReplyFromMessage(req)
           [] OTHER -> NoMsg

\* the reply skeleton of dhcpServer.handle6 for an inner message, NoMsg when
\* the switch or the constructor gives an error
Skeleton6(req) ==
    IF ~req.build THEN NoMsg
    ELSE CASE req.mt = "Solicit" ->
                IF req.rapid THEN NewReplyFromMessage(req) ELSE NewAdvertiseFromSolicit(req)
           [] req.mt \in {"Request", "Confirm", "Renew", "Rebind", "Release",
                          "InformationRequest"} -> NewReplyFromMessage(req)
           [] OTHER -> NoMsg

\* dhcpServer.handle6 up to the call of the chain's first closure
handle6(t) ==
    /\ tasks[t].pc = "start"
    /\ tasks[t].m.fam = 6
    /\ LET m == tasks[t].m
       IN  tasks' =
             IF ~m.inner \/ Skeleton6(m) = NoMsg
             THEN [tasks EXCEPT ![t] = Return(@)]
             ELSE [tasks EXCEPT ![t].resp = Skeleton6(m),
                                ![t].cl = handlerChain_next(Len(chain)),
                                ![t].pc = "call"]
    /\ UNCHANGED NotTasks

\* calling the terminal next, func() error { return nil }
terminal_next(t) ==
    /\ tasks[t].pc = "call"
    /\ tasks[t].cl = <<>>
    /\ tasks' = [tasks EXCEPT ![t].events = Append(@, <<"terminal", 0>>),
                              ![t].res = "nil",
                              ![t].pc = "unwind"]
    /\ UNCHANGED NotTasks

\* calling a closure of the chain: handler i = Head(cl) is entered with
\* nextCopy = Tail(cl) and runs up to its call of next or its return
handler_enter(t) ==
    /\ tasks[t].pc = "call"
    /\ tasks[t].cl # <<>>
    /\ chain[Head(tasks[t].cl)] \in HandlerKinds \cup OptionKinds
    /\ LET i    == Head(tasks[t].cl)
           outs == IF tasks[t].m.fam = 4
                   THEN Handle4(chain[i], tasks[t].m, tasks[t].resp)
                   ELSE Handle6(chain[i], tasks[t].m, tasks[t].resp)
       IN  \E o \in outs :
             tasks' =
               IF o.out = "next"
               THEN [tasks EXCEPT ![t].events = Append(@, <<"enter", i>>),
                                  ![t].resp = o.resp,
                                  ![t].stack = Append(@, i),
                                  ![t].cl = Tail(@)]
               ELSE [tasks EXCEPT ![t].events = Append(@, <<"enter", i>>),
                                  ![t].resp = o.resp,
                                  ![t].res = o.out,
                                  ![t].stopAt = i,
                                  ![t].out = o.out,
                                  ![t].pc = "unwind"]
    /\ UNCHANGED NotTasks

\* next() returned into the innermost waiting handler, which returns the
\* same value (return next())
handler_return(t) ==
    /\ tasks[t].pc = "unwind"
    /\ tasks[t].stack # <<>>
    /\ LET n == Len(tasks[t].stack)
       IN  tasks' = [tasks EXCEPT ![t].events = Append(@, <<"return", tasks[t].stack[n]>>),
                                  ![t].stack = SubSeq(@, 1, n - 1)]
    /\ UNCHANGED NotTasks

\* conn.WriteTo(bytes, peer) on the task's connection: the payload reaches
\* the peer unless the connection is closed
WriteTo(task, payload) ==
    IF conns[task.lid].closed
    THEN Return([task EXCEPT !.wcall = TRUE])
    ELSE Return([task EXCEPT !.wcall = TRUE,
                             !.sent = [dst |-> task.peer, msg |-> payload]])

handle4_reply_dropshort(t) ==
    /\ tasks[t].pc = "unwind"
    /\ tasks[t].stack = <<>>
    /\ tasks[t].m.fam = 4
    /\ tasks' =
         IF tasks[t].res # "nil" \/ tasks[t].stopAt # 0
         THEN [tasks EXCEPT ![t] = Return(@)]
         ELSE [tasks EXCEPT ![t] = WriteTo(tasks[t], tasks[t].resp)]
    /\ UNCHANGED NotTasks

\* dhcpServer.handle4 after the chain returned
handle4_reply(t) ==
    /\ tasks[t].pc = "unwind"
    /\ tasks[t].stack = <<>>
    /\ tasks[t].m.fam = 4
    /\ tasks' =
         IF tasks[t].res # "nil"
         THEN [tasks EXCEPT ![t] = Return(@)]
         ELSE [tasks EXCEPT ![t] = WriteTo(tasks[t], tasks[t].resp)]
    /\ UNCHANGED NotTasks

handle6_reply_partial(t) ==
    /\ tasks[t].pc = "unwind"
    /\ tasks[t].stack = <<>>
    /\ tasks[t].m.fam = 6
    /\ tasks' =
         IF tasks[t].m.relay
         THEN IF ~tasks[t].m.wrap
              THEN [tasks EXCEPT ![t] = Return(@)]
              ELSE [tasks EXCEPT ![t] =
                      WriteTo(tasks[t], NewRelayReplFromRelayForw(tasks[t].m, tasks[t].resp))]
         ELSE [tasks EXCEPT ![t] = WriteTo(tasks[t], tasks[t].resp)]
    /\ UNCHANGED NotTasks

handle6_reply_bare(t) ==
    /\ tasks[t].pc = "unwind"
    /\ tasks[t].stack = <<>>
    /\ tasks[t].m.fam = 6
    /\ tasks' =
         IF tasks[t].res # "nil"
         THEN [tasks EXCEPT ![t] = Return(@)]
         ELSE [tasks EXCEPT ![t] = WriteTo(tasks[t], tasks[t].resp)]
    /\ UNCHANGED NotTasks

\* dhcpServer.handle6 after the chain returned
handle6_reply(t) ==
    /\ tasks[t].pc = "unwind"
    /\ tasks[t].stack = <<>>
    /\ tasks[t].m.fam = 6
    /\ tasks' =
         IF tasks[t].res # "nil"
         THEN [tasks EXCEPT ![t] = Return(@)]
         ELSE IF tasks[t].m.relay
         THEN IF ~tasks[t].m.wrap
              THEN [tasks EXCEPT ![t] = Return(@)]
              ELSE [tasks EXCEPT ![t] =
                      WriteTo(tasks[t], NewRelayReplFromRelayForw(tasks[t].m, tasks[t].resp))]
         ELSE [tasks EXCEPT ![t] = WriteTo(tasks[t], tasks[t].resp)]
    /\ UNCHANGED NotTasks

\* one step of some handle task
HandleStep ==
    \E t \in TaskIds :
        \/ handle4(t)
        \/ handle6(t)
        \/ terminal_next(t)
        \/ handler_enter(t)
        \/ handler_return(t)
        \/ handle4_reply(t)
        \/ handle6_reply(t)

\* ------------------------------------------- single-request specification
\* The server is started, one well-formed datagram has been read and its
\* handle task spawned; the task runs alone.

\* the state of s.connections and the listener tasks once Start has returned
StartedConns ==
    [i \in 1..Len(Addresses) |-> [net |-> Addresses[i], addr |-> i, iface |-> "", closed |-> FALSE]]
StartedTasks == [i \in 1..Len(Addresses) |-> [pc |-> "reading", err |-> "nil", dropped |-> {}]]

\* the peer the udp4 read loop hands to handle4: broadcast when the client
\* has no IP
Upeer4(d) == IF d.peer = "zero" THEN "broadcast" ELSE d.peer

InitHandle ==
    /\ chain \in SeqsUpTo(MaxChain)
    /\ app = "started"
    /\ conns = StartedConns
    /\ ltask = StartedTasks
    /\ egErr = "nil"
    /\ stop = [pc |-> "idle", i |-> 1, result |-> "nil"]
    /\ narrived = 1
    /\ now = 0
    /\ rng = NoModule
    /\ file = NoModule
    /\ pfx = NoModule
    /\ srv = NoAccessLog
    /\ cmp = NoCall
    /\ \/ \E d \in Datagrams4 : tasks = <<NewTask(1, 1, d, Upeer4(d))>>
       \/ \E d \in Datagrams6 : tasks = <<NewTask(2, 1, d, d.peer)>>

SpecHandle == InitHandle /\ [][HandleStep]_vars

\* ------------------------------------------------ access-log specification
\* One request as above, on a server provisioned with or without logs by
\* either copy of App.Provision.

\* the chains of the access-log specification: none, a handler that can
\* return without next, a handler that can fail
LogChains == {<<>>, <<"serverid">>, <<"messagelog">>}

\* the servers App.Provision builds from the logs flag
Servers ==
    UNION {{[logs |-> l, accessLog |-> a] :
                a \in {Provision_accessLog(l), Provision_accessLog_always(l)}} :
             l \in BOOLEAN}

InitLog ==
    /\ chain \in LogChains
    /\ app = "started"
    /\ conns = StartedConns
    /\ ltask = StartedTasks
    /\ egErr = "nil"
    /\ stop = [pc |-> "idle", i |-> 1, result |-> "nil"]
    /\ narrived = 1
    /\ now = 0
    /\ rng = NoModule
    /\ file = NoModule
    /\ pfx = NoModule
    /\ srv \in Servers
    /\ cmp = NoCall
    /\ \/ \E d \in Datagrams4 : tasks = <<NewTask(1, 1, d, Upeer4(d))>>
       \/ \E d \in Datagrams6 : tasks = <<NewTask(2, 1, d, d.peer)>>

SpecLog == InitLog /\ [][HandleStep]_vars

\* ------------------------------------------------------------ lifecycle
\* A listener task is a record [pc, err, dropped]: pc is "reading" (in the
\* read loop) or "exited"; err is what the task returned to app.errGroup;
\* dropped holds the arrival numbers of the datagrams it failed to parse.

\* the datagrams that arrive on a udp4 / udp6 listener in the lifecycle
\* specification
LifeDatagrams4 ==
    {Malformed4,
     [fam |-> 4, wf |-> TRUE, mt |-> "Discover", op |-> "BootRequest",
      siaddr |-> "zero", peer |-> "zero"]}

LifeDatagrams6 ==
    {Malformed6,
     [fam |-> 6, wf |-> TRUE, relay |-> TRUE, inner |-> TRUE, mt |-> "Request",
      rapid |-> FALSE, sid |-> "mine", build |-> TRUE, wrap |-> TRUE, peer |-> "client"]}

\* the handler chains the lifecycle specification is provisioned with: none,
\* one handler that calls next, one that can fail
LifeChains == {<<>>, <<"sleep">>, <<"messagelog">>}

ConnIds == 1..Len(conns)

\* the error app.errGroup.Wait() returns once a task returned err: the first
\* non-nil one
Recorded(err) == IF egErr = "nil" THEN err ELSE egErr

\* App.Start, one iteration of its loop over s.addresses: bind the next
\* address with addr.Listen (no interface is given: s.interfaces is only
\* logged), append the connection, spawn its listener task in app.errGroup;
\* Start returns nil after the last address
Start ==
    /\ app \in {"provisioned", "starting"}
    /\ Len(conns) < Len(Addresses)
    /\ conns' = Append(conns, [net |-> Addresses[Len(conns) + 1], addr |-> Len(conns) + 1,
                               iface |-> "", closed |-> FALSE])
    /\ ltask' = Append(ltask, [pc |-> "reading", err |-> "nil", dropped |-> {}])
    /\ app' = IF Len(conns) + 1 = Len(Addresses) THEN "started" ELSE "starting"
    /\ UNCHANGED <<cmp, srv, chain, egErr, stop, tasks, narrived, mods>>

Start_fail_closing ==
    /\ app \in {"provisioned", "starting"}
    /\ Len(conns) < Len(Addresses)
    /\ app' = "failed"
    /\ conns' = [l \in ConnIds |-> [conns[l] EXCEPT !.closed = TRUE]]
    /\ UNCHANGED <<cmp, srv, chain, ltask, egErr, stop, tasks, narrived, mods>>

\* App.Start, the iteration in which addr.Listen fails: Start returns
\* "failed to listen on ..." from inside the loop; the connections appended
\* so far and their listener tasks are not touched
Start_fail ==
    /\ app \in {"provisioned", "starting"}
    /\ Len(conns) < Len(Addresses)
    /\ app' = "failed"
    /\ UNCHANGED <<cmp, srv, chain, conns, ltask, egErr, stop, tasks, narrived, mods>>

listen4_exits(l) ==
    /\ conns[l].net = "udp4"
    /\ ltask[l].pc = "reading"
    /\ ~conns[l].closed
    /\ narrived < MaxDatagrams
    /\ narrived' = narrived + 1
    /\ \E d \in LifeDatagrams4 :
          IF ~d.wf
          THEN /\ ltask' = [ltask EXCEPT ![l].pc = "exited", ![l].err = "ErrParse",
                                         ![l].dropped = @ \cup {narrived + 1}]
               /\ tasks' = tasks
          ELSE /\ tasks' = Append(tasks, NewTask(l, narrived + 1, d, Upeer4(d)))
               /\ ltask' = ltask
    /\ UNCHANGED <<cmp, srv, chain, app, conns, egErr, stop, mods>>

listen4_waiting(l) ==
    /\ conns[l].net = "udp4"
    /\ ltask[l].pc = "reading"
    /\ ~conns[l].closed
    /\ narrived < MaxDatagrams
    /\ \A t \in TaskIds : tasks[t].lid = l => tasks[t].pc = "done"
    /\ narrived' = narrived + 1
    /\ \E d \in LifeDatagrams4 :
          IF ~d.wf
          THEN /\ ltask' = [ltask EXCEPT ![l].dropped = @ \cup {narrived + 1}]
               /\ tasks' = tasks
          ELSE /\ tasks' = Append(tasks, NewTask(l, narrived + 1, d, Upeer4(d)))
               /\ ltask' = ltask
    /\ UNCHANGED <<cmp, srv, chain, app, conns, egErr, stop, mods>>

\* the udp4 listener task, one iteration of its read loop in which ReadFrom
\* returns a datagram: parse it, drop it when malformed, else hand it to a
\* new handle task (go s.handle4) and read on
listen4(l) ==
    /\ conns[l].net = "udp4"
    /\ ltask[l].pc = "reading"
    /\ ~conns[l].closed
    /\ narrived < MaxDatagrams
    /\ narrived' = narrived + 1
    /\ \E d \in LifeDatagrams4 :
          IF ~d.wf
          THEN /\ ltask' = [ltask EXCEPT ![l].dropped = @ \cup {narrived + 1}]
               /\ tasks' = tasks
          ELSE /\ tasks' = Append(tasks, NewTask(l, narrived + 1, d, Upeer4(d)))
               /\ ltask' = ltask
    /\ UNCHANGED <<cmp, srv, chain, app, conns, egErr, stop, mods>>

\* the udp6 listener task, one iteration of its read loop in which ReadFrom
\* returns a datagram
listen6(l) ==
    /\ conns[l].net = "udp6"
    /\ ltask[l].pc = "reading"
    /\ ~conns[l].closed
    /\ narrived < MaxDatagrams
    /\ narrived' = narrived + 1
    /\ \E d \in LifeDatagrams6 :
          IF ~d.wf
          THEN /\ ltask' = [ltask EXCEPT ![l].dropped = @ \cup {narrived + 1}]
               /\ tasks' = tasks
          ELSE /\ tasks' = Append(tasks, NewTask(l, narrived + 1, d, d.peer))
               /\ ltask' = ltask
    /\ UNCHANGED <<cmp, srv, chain, app, conns, egErr, stop, mods>>

\* a listener task whose ReadFrom fails because its connection is closed:
\* it returns the error to app.errGroup (its deferred conn.Close() runs)
read_closed(l) ==
    /\ ltask[l].pc = "reading"
    /\ conns[l].closed
    /\ ltask' = [ltask EXCEPT ![l].pc = "exited", ![l].err = "ErrClosed"]
    /\ egErr' = Recorded("ErrClosed")
    /\ UNCHANGED <<cmp, srv, chain, app, conns, stop, tasks, narrived, mods>>

\* a listener task whose ReadFrom fails on an open connection (an I/O
\* error): it returns the error and its deferred conn.Close() closes the
\* connection
read_fail(l) ==
    /\ ltask[l].pc = "reading"
    /\ ~conns[l].closed
    /\ ltask' = [ltask EXCEPT ![l].pc = "exited", ![l].err = "ErrRead"]
    /\ conns' = [conns EXCEPT ![l].closed = TRUE]
    /\ egErr' = Recorded("ErrRead")
    /\ UNCHANGED <<cmp, srv, chain, app, stop, tasks, narrived, mods>>

\* conn.Close() on a connection: nil on an open one; on one that is already
\* closed the listener's answer, nil (a listener that tolerates a second
\* close) or the closed-connection error (net.UDPConn)
Close(conn) == IF conn.closed THEN {"nil", "ErrClosed"} ELSE {"nil"}

Stop_close_cancelling ==
    /\ app \in {"started", "failed"}
    /\ stop.pc \in {"idle", "closing"}
    /\ stop.i <= Len(conns)
    /\ conns' = [conns EXCEPT ![stop.i].closed = TRUE]
    /\ \E r \in Close(conns'[stop.i]) :
          stop' = IF r # "nil"
                  THEN [pc |-> "returned", i |-> stop.i, result |-> r]
                  ELSE [pc |-> "closing", i |-> stop.i + 1, result |-> "nil"]
    /\ tasks' = [t \in TaskIds |-> [tasks[t] EXCEPT !.pc = "done"]]
    /\ UNCHANGED <<cmp, srv, chain, app, ltask, egErr, narrived, mods>>

\* App.Stop, one iteration of its loop over s.connections: close the
\* connection (result ignored), close it again and return the error if there
\* is one; Stop looks at no state of Start, so it runs the same after a Start
\* that returned an error
Stop_close ==
    /\ app \in {"started", "failed"}
    /\ stop.pc \in {"idle", "closing"}
    /\ stop.i <= Len(conns)
    /\ conns' = [conns EXCEPT ![stop.i].closed = TRUE]
    /\ \E r \in Close(conns'[stop.i]) :
          stop' = IF r # "nil"
                  THEN [pc |-> "returned", i |-> stop.i, result |-> r]
                  ELSE [pc |-> "closing", i |-> stop.i + 1, result |-> "nil"]
    /\ UNCHANGED <<cmp, srv, chain, app, ltask, egErr, tasks, narrived, mods>>

\* App.Stop after its loop: app.errGroup.Wait() returns once every listener
\* task has returned, with the first non-nil error
Stop_wait ==
    /\ app \in {"started", "failed"}
    /\ stop.pc \in {"idle", "closing"}
    /\ stop.i > Len(conns)
    /\ \A l \in ConnIds : ltask[l].pc = "exited"
    /\ stop' = [pc |-> "returned", i |-> stop.i, result |-> egErr]
    /\ UNCHANGED <<cmp, srv, chain, app, conns, ltask, egErr, tasks, narrived, mods>>

ListenerStep ==
    \E l \in ConnIds :
        \/ listen4(l)
        \/ listen6(l)
        \/ read_closed(l)
        \/ read_fail(l)

Init ==
    /\ chain \in LifeChains
    /\ app = "provisioned"
    /\ conns = <<>>
    /\ ltask = <<>>
    /\ egErr = "nil"
    /\ stop = [pc |-> "idle", i |-> 1, result |-> "nil"]
    /\ tasks = <<>>
    /\ narrived = 0
    /\ now = 0
    /\ rng = NoModule
    /\ file = NoModule
    /\ pfx = NoModule
    /\ srv = NoAccessLog
    /\ cmp = NoCall

Next ==
    \/ Start
    \/ Start_fail
    \/ ListenerStep
    \/ HandleStep
    \/ Stop_close
    \/ Stop_wait

Spec == Init /\ [][Next]_vars

\* the scheduler runs every spawned handle task until it returns
LiveSpec == Spec /\ WF_vars(HandleStep)

\* ------------------------------------------------------------ file handler
\* The lease file is a sequence of lines.  A line is [raw, tokens]: raw is
\* "empty" (length 0), "comment" (starts with #) or "text", tokens is
\* strings.Fields(line).  Identifiers: "m1", "m2" are MAC addresses written as
\* net.HardwareAddr.String() prints them, "M1" is m1 written in upper case.
\* IP texts: "ip1", "ip2" are IPv4 addresses, "ip6" an IPv6 address, "bad"
\* a text net.ParseIP rejects.

\* number of times the lease file is rewritten in one run
MaxWrites == 2

TextLine(tokens) == [raw |-> "text", tokens |-> tokens]

\* the file contents a run chooses from
FileContents ==
    {<<>>,
     <<TextLine(<<"m1", "ip1">>)>>,
     <<[raw |-> "comment", tokens |-> <<"#">>], TextLine(<<"m1", "ip2">>),
       [raw |-> "empty", tokens |-> <<>>], TextLine(<<"m2", "ip6">>)>>,
     <<TextLine(<<"M1", "ip1">>), TextLine(<<"m2", "bad">>)>>,
     <<TextLine(<<"m2", "ip1">>), TextLine(<<"m1">>)>>}

\* the states of the lease file on disk: readable with some content, or
\* os.ReadFile fails
FileDisks ==
    {[ok |-> TRUE, lines |-> c] : c \in FileContents} \cup {[ok |-> FALSE, lines |-> <<>>]}

\* ip.To4() != nil / ip.To16() != nil for ip = net.ParseIP(text)
To4(text) == text \in {"ip1", "ip2"}
To16(text) == text \in {"ip1", "ip2", "ip6"}

\* map assignment m[k] = v
MapPut(m, k, v) == [x \in (DOMAIN m) \cup {k} |-> IF x = k THEN v ELSE m[x]]

\* the loop of loadRecords over the lines from index i on, with the maps
\* built so far: [err, records4, records6]
RECURSIVE loadRecords_loop(_, _, _, _)
loadRecords_loop(lines, i, records4, records6) ==
    IF i > Len(lines) THEN [err |-> "nil", records4 |-> records4, records6 |-> records6]
    ELSE LET line == lines[i]
         IN  IF line.raw \in {"empty", "comment"}
             THEN loadRecords_loop(lines, i + 1, records4, records6)
             ELSE IF Len(line.tokens) # 2
             THEN [err |-> "ErrMalformed", records4 |-> records4, records6 |-> records6]
             ELSE LET id == line.tokens[1]
                      ip == line.tokens[2]
                  IN  loadRecords_loop(lines, i + 1,
                         IF To4(ip) THEN MapPut(records4, id, ip) ELSE records4,
                         IF To16(ip) THEN MapPut(records6, id, ip) ELSE records6)

\* loadRecords up to the assignment of the maps: read the file and parse it
loadRecords_parse(disk) ==
    IF ~disk.ok
    THEN [err |-> "ErrRead", records4 |-> <<>>, records6 |-> <<>>]
    ELSE loadRecords_loop(disk.lines, 1, <<>>, <<>>)

\* the file module before Provision: its configuration and the lease file.
\*   events   Write events waiting in watcher.Events
\*   load     the watcher's call of loadRecords: "idle" (none), "swap4"
\*            (parsed, records4 not assigned yet), "swap6" (records4 assigned)
\*   reloaded, failed  some reload succeeded / failed so far
NewFile(autoRefresh, disk) ==
    [state |-> "new", autoRefresh |-> autoRefresh, disk |-> disk,
     records4 |-> <<>>, records6 |-> <<>>, events |-> 0, nwrites |-> 0,
     load |-> [at |-> "idle", records4 |-> <<>>, records6 |-> <<>>],
     reloaded |-> FALSE, failed |-> FALSE]

\* file.Module.Provision: loadRecords directly or through watchRecords, which
\* starts the watcher once the first load succeeded
file_Provision ==
    /\ file.state = "new"
    /\ LET r == loadRecords_parse(file.disk)
       IN  file' = IF r.err # "nil"
                   THEN [file EXCEPT !.state = "failed"]
                   ELSE [file EXCEPT !.state = "ok", !.records4 = r.records4,
                                     !.records6 = r.records6]
    /\ UNCHANGED <<cmp, srv, chain, app, conns, ltask, egErr, stop, tasks, narrived, now, rng, pfx>>

\* the lease file is written by somebody else while the module is in use:
\* new content (or the file becomes unreadable); the watcher, if there is
\* one, gets a Write event
file_write ==
    /\ file.state = "ok"
    /\ file.nwrites < MaxWrites
    /\ \E c \in FileDisks :
          file' = [file EXCEPT !.disk = c, !.nwrites = @ + 1,
                               !.events = IF file.autoRefresh THEN @ + 1 ELSE @]
    /\ UNCHANGED <<cmp, srv, chain, app, conns, ltask, egErr, stop, tasks, narrived, now, rng, pfx>>

watch_load_partial ==
    /\ file.state = "ok"
    /\ file.events > 0
    /\ file.load.at = "idle"
    /\ LET r == loadRecords_parse(file.disk)
       IN  file' = IF r.err # "nil"
                   THEN [file EXCEPT !.events = @ - 1, !.failed = TRUE,
                                     !.records4 = r.records4, !.records6 = r.records6]
                   ELSE [file EXCEPT !.events = @ - 1,
                                     !.load = [at |-> "swap4", records4 |-> r.records4,
                                               records6 |-> r.records6]]
    /\ UNCHANGED <<cmp, srv, chain, app, conns, ltask, egErr, stop, tasks, narrived, now, rng, pfx>>

\* the watcher goroutine takes a Write event and calls loadRecords, which
\* reads and parses the file; an error is logged and the loop goes on
watch_load ==
    /\ file.state = "ok"
    /\ file.events > 0
    /\ file.load.at = "idle"
    /\ LET r == loadRecords_parse(file.disk)
       IN  file' = IF r.err # "nil"
                   THEN [file EXCEPT !.events = @ - 1, !.failed = TRUE]
                   ELSE [file EXCEPT !.events = @ - 1,
                                     !.load = [at |-> "swap4", records4 |-> r.records4,
                                               records6 |-> r.records6]]
    /\ UNCHANGED <<cmp, srv, chain, app, conns, ltask, egErr, stop, tasks, narrived, now, rng, pfx>>

\* loadRecords, m.records4 = records4 (under recLock.RLock)
watch_swap4 ==
    /\ file.load.at = "swap4"
    /\ file' = [file EXCEPT !.records4 = file.load.records4, !.load.at = "swap6"]
    /\ UNCHANGED <<cmp, srv, chain, app, conns, ltask, egErr, stop, tasks, narrived, now, rng, pfx>>

\* loadRecords, m.records6 = records6, RUnlock and return
watch_swap6 ==
    /\ file.load.at = "swap6"
    /\ file' = [file EXCEPT !.records6 = file.load.records6, !.reloaded = TRUE,
                             !.load = [at |-> "idle", records4 |-> <<>>, records6 |-> <<>>]]
    /\ UNCHANGED <<cmp, srv, chain, app, conns, ltask, egErr, stop, tasks, narrived, now, rng, pfx>>

\* the steps of the watcher goroutine
WatcherStep == watch_load \/ watch_swap4 \/ watch_swap6

file_Handle4_stop(t) ==
    /\ tasks[t].pc = "call"
    /\ tasks[t].cl # <<>>
    /\ chain[Head(tasks[t].cl)] = "file"
    /\ tasks[t].m.fam = 4
    /\ LET i   == Head(tasks[t].cl)
           key == tasks[t].m.mac
       IN  tasks' =
             IF key \in DOMAIN file.records4
             THEN [tasks EXCEPT ![t].events = Append(@, <<"enter", i>>),
                                ![t].resp.yiaddr = file.records4[key],
                                ![t].stack = Append(@, i),
                                ![t].cl = Tail(@)]
             ELSE [tasks EXCEPT ![t].events = Append(@, <<"enter", i>>),
                                ![t].stopAt = i,
                                ![t].pc = "unwind"]
    /\ UNCHANGED NotTasks

\* file.Module.Handle4 up to its call of next: lookup4 reads
\* m.records4[req.ClientHWAddr.String()] under the read lock
file_Handle4(t) ==
    /\ tasks[t].pc = "call"
    /\ tasks[t].cl # <<>>
    /\ chain[Head(tasks[t].cl)] = "file"
    /\ tasks[t].m.fam = 4
    /\ LET i   == Head(tasks[t].cl)
           key == tasks[t].m.mac
       IN  tasks' =
             IF key \in DOMAIN file.records4
             THEN [tasks EXCEPT ![t].events = Append(@, <<"enter", i>>),
                                ![t].resp.yiaddr = file.records4[key],
                                ![t].stack = Append(@, i),
                                ![t].cl = Tail(@)]
             ELSE [tasks EXCEPT ![t].events = Append(@, <<"enter", i>>),
                                ![t].stack = Append(@, i),
                                ![t].cl = Tail(@)]
    /\ UNCHANGED NotTasks

\* the DHCPv4 requests of the file handler specification: the client
\* hardware address as req.ClientHWAddr.String() prints it
FileDatagrams4 ==
    [fam : {4}, wf : {TRUE}, mt : {"Discover"}, op : {"BootRequest"},
     siaddr : {"zero"}, peer : {"client"}, mac : {"m1", "m2"}]

\* the chains of the file handler specification
FileChains == {<<"file">>, <<"file", "messagelog">>}

\* the udp4 listener reads a well-formed request and spawns its handle task
\* (the server runs once the file module is provisioned); in this
\* specification a request arrives when the ones before it are handled: the
\* handle tasks share nothing but the maps they read
file_serve ==
    /\ file.state = "ok"
    /\ narrived < MaxDatagrams
    /\ \A t \in TaskIds : tasks[t].pc = "done"
    /\ narrived' = narrived + 1
    /\ \E d \in FileDatagrams4 : tasks' = Append(tasks, NewTask(1, narrived + 1, d, Upeer4(d)))
    /\ UNCHANGED <<cmp, srv, chain, app, conns, ltask, egErr, stop, mods>>

\* one step of a handle task of the file handler specification
FileHandleStep ==
    \E t \in TaskIds :
        \/ handle4(t)
        \/ file_Handle4(t)
        \/ handler_enter(t)
        \/ terminal_next(t)
        \/ handler_return(t)
        \/ handle4_reply(t)

InitFile ==
    /\ chain \in FileChains
    /\ app = "started"
    /\ conns = StartedConns
    /\ ltask = StartedTasks
    /\ egErr = "nil"
    /\ stop = [pc |-> "idle", i |-> 1, result |-> "nil"]
    /\ tasks = <<>>
    /\ narrived = 0
    /\ now = 0
    /\ rng = NoModule
    /\ pfx = NoModule
    /\ srv = NoAccessLog
    /\ cmp = NoCall
    /\ \E a \in BOOLEAN : \E c \in FileDisks : file = NewFile(a, c)

NextFile ==
    \/ file_Provision
    \/ file_write
    \/ WatcherStep
    \/ file_serve
    \/ FileHandleStep

SpecFile == InitFile /\ [][NextFile]_vars

\* the file module and its watcher alone (lookups only read the maps), the
\* watcher goroutine being scheduled as long as it has something to do
NextWatch ==
    \/ file_Provision
    \/ file_write
    \/ WatcherStep

LiveSpecFile == InitFile /\ [][NextWatch]_vars /\ WF_vars(WatcherStep)

\* ----------------------------------------------------------- range handler
\* Addresses: "ip1", "ip2" are the addresses of [startIP, endIP], "ipX" is an
\* IPv4 address outside.  The allocator (handlers/allocators/bitmap) keeps
\* the set of used addresses: Allocate with a hint gives the hint if it is
\* in the pool and free and fails otherwise; Allocate without a hint gives
\* some free address and fails when there is none.

Pool4 == {"ip1", "ip2"}

\* m.LeaseTime, in clock units
LeaseTime == 2

\* last value of the clock
MaxNow == 1

\* host names a client sends: an ordinary one and one that reads as a number
Hostnames == {"host", "007"}

\* what SQLite stores for a text put into a column declared `string`: such a
\* column has NUMERIC affinity, a text that is a well-formed number is
\* stored as that number (and scanned back as its decimal form)
NumericAffinity(text) == IF text = "007" THEN "7" ELSE text

\* saveIPAddress: insert or replace into leases4, primary key (mac, ip)
saveIPAddress(db, mac, rec) ==
    LET row == [mac |-> NumericAffinity(mac), ip |-> NumericAffinity(rec.ip),
                expiry |-> rec.expires, hostname |-> NumericAffinity(rec.hostname)]
    IN  {r \in db : ~(r.mac = row.mac /\ r.ip = row.ip)} \cup {row}

\* loadRecords4: the maps the scan of leases4 can give; of several rows with
\* one mac the row scanned last stays, and the order of the rows is not fixed
loadRecords4(db) ==
    LET macs  == {r.mac : r \in db}
        recOf(r) == [ip |-> r.ip, expires |-> r.expiry, hostname |-> r.hostname]
    IN  {f \in [macs -> {recOf(r) : r \in db}] :
            \A m \in macs : \E r \in db : r.mac = m /\ f[m] = recOf(r)}

\* m.allocator.Allocate(net.IPNet{IP: hint})
Allocate(used, hint) ==
    IF hint \in Pool4 \ used
    THEN [err |-> "nil", ip |-> hint, used |-> used \cup {hint}]
    ELSE [err |-> "ErrAlloc", ip |-> "zero", used |-> used]

\* the loop of Provision over the loaded records (macs: those not yet
\* visited): the used set after it, or an error
RECURSIVE Provision_loop(_, _, _)
Provision_loop(recs, macs, used) ==
    IF macs = {} THEN [err |-> "nil", used |-> used]
    ELSE LET m == CHOOSE x \in macs : TRUE
             a == Allocate(used, recs[m].ip)
         IN  IF a.err # "nil" THEN [err |-> a.err, used |-> a.used]
             ELSE IF a.ip # recs[m].ip THEN [err |-> "ErrDiverged", used |-> a.used]
             ELSE Provision_loop(recs, macs \ {m}, a.used)

\* the lease databases a run starts with: empty, one lease, a lease outside
\* the range, two leases with one address
RangeDbs ==
    {{},
     {[mac |-> "m1", ip |-> "ip1", expiry |-> 2, hostname |-> "host"]},
     {[mac |-> "m1", ip |-> "ipX", expiry |-> 2, hostname |-> "host"]},
     {[mac |-> "m1", ip |-> "ip1", expiry |-> 2, hostname |-> "host"],
      [mac |-> "m2", ip |-> "ip1", expiry |-> 2, hostname |-> "host"]}}

\* the range module before Provision
NewRange(db) == [state |-> "new", used |-> {}, records4 |-> <<>>, db |-> db]

range_Provision_noalloc ==
    /\ rng.state = "new"
    /\ \E recs \in loadRecords4(rng.db) :
          LET a == Provision_loop(recs, DOMAIN recs, {})
          IN  rng' = IF a.err # "nil"
                     THEN [rng EXCEPT !.state = "failed"]
                     ELSE [rng EXCEPT !.state = "ok", !.records4 = recs]
    /\ UNCHANGED <<cmp, srv, chain, app, conns, ltask, egErr, stop, tasks, narrived, now, file, pfx>>

\* range.Module.Provision: new allocator, open the database, load the
\* leases and allocate the address of each
range_Provision ==
    /\ rng.state = "new"
    /\ \E recs \in loadRecords4(rng.db) :
          LET a == Provision_loop(recs, DOMAIN recs, {})
          IN  rng' = IF a.err # "nil"
                     THEN [rng EXCEPT !.state = "failed"]
                     ELSE [rng EXCEPT !.state = "ok", !.records4 = recs, !.used = a.used]
    /\ UNCHANGED <<cmp, srv, chain, app, conns, ltask, egErr, stop, tasks, narrived, now, file, pfx>>

\* time passes
Tick ==
    /\ now < MaxNow
    /\ now' = now + 1
    /\ UNCHANGED <<cmp, srv, chain, app, conns, ltask, egErr, stop, tasks, narrived, rng, file, pfx>>

\* The locals of a task inside range.Module.Handle4:
\*   at     "read" (lookup4 holds the read lock and has read the map),
\*          "allocated" (a new address is allocated), "done" (lookup4 is
\*          about to return), "returned" (Handle4 called next)
\*   found  the MAC had a record
\*   rec    the record lookup4 works on (a copy of the map's)
\*   wrote  lookup4 persisted rec
\*   err    the error lookup4 returns
NoRec == [ip |-> "zero", expires |-> 0, hostname |-> ""]

\* range.Module.Handle4 up to lookup4's read of the map: take the read lock
\* (never contended: nothing takes the write lock after Provision), read
\* m.records4[addr.String()]
range_Handle4(t) ==
    /\ tasks[t].pc = "call"
    /\ tasks[t].cl # <<>>
    /\ chain[Head(tasks[t].cl)] = "range"
    /\ tasks[t].m.fam = 4
    /\ LET mac == tasks[t].m.mac
           ok  == mac \in DOMAIN rng.records4
       IN  tasks' = [tasks EXCEPT
                       ![t].events = Append(@, <<"enter", Head(tasks[t].cl)>>),
                       ![t].pc = "lookup",
                       ![t].loc = [at |-> "read", found |-> ok,
                                   rec |-> IF ok THEN rng.records4[mac] ELSE NoRec,
                                   wrote |-> FALSE, err |-> "nil"]]
    /\ UNCHANGED NotTasks

lookup4_allocate_any(t) ==
    /\ tasks[t].pc = "lookup"
    /\ tasks[t].loc.at = "read"
    /\ ~tasks[t].loc.found
    /\ \E ip \in Pool4 :
          /\ rng' = [rng EXCEPT !.used = @ \cup {ip}]
          /\ tasks' = [tasks EXCEPT
                          ![t].loc.at = "allocated",
                          ![t].loc.rec = [ip |-> ip, expires |-> now + LeaseTime,
                                          hostname |-> tasks[t].m.hostname]]
    /\ UNCHANGED <<cmp, srv, chain, app, conns, ltask, egErr, stop, narrived, now, file, pfx>>

\* lookup4, no record: m.allocator.Allocate(net.IPNet{}) and the new record
lookup4_allocate(t) ==
    /\ tasks[t].pc = "lookup"
    /\ tasks[t].loc.at = "read"
    /\ ~tasks[t].loc.found
    /\ IF Pool4 \ rng.used = {}
       THEN /\ tasks' = [tasks EXCEPT ![t].loc.at = "done", ![t].loc.err = "ErrAlloc"]
            /\ rng' = rng
       ELSE \E ip \in Pool4 \ rng.used :
               /\ rng' = [rng EXCEPT !.used = @ \cup {ip}]
               /\ tasks' = [tasks EXCEPT
                               ![t].loc.at = "allocated",
                               ![t].loc.rec = [ip |-> ip, expires |-> now + LeaseTime,
                                               hostname |-> tasks[t].m.hostname]]
    /\ UNCHANGED <<cmp, srv, chain, app, conns, ltask, egErr, stop, narrived, now, file, pfx>>

\* lookup4, no record: saveIPAddress, which can fail, then
\* m.records4[addr.String()] = newRec
lookup4_save(t) ==
    /\ tasks[t].pc = "lookup"
    /\ tasks[t].loc.at = "allocated"
    /\ \/ /\ tasks' = [tasks EXCEPT ![t].loc.at = "done", ![t].loc.err = "ErrSave"]
          /\ rng' = rng
       \/ /\ rng' = [rng EXCEPT
                       !.db = saveIPAddress(rng.db, tasks[t].m.mac, tasks[t].loc.rec),
                       !.records4 = MapPut(@, tasks[t].m.mac, tasks[t].loc.rec)]
          /\ tasks' = [tasks EXCEPT ![t].loc.at = "done", ![t].loc.wrote = TRUE]
    /\ UNCHANGED <<cmp, srv, chain, app, conns, ltask, egErr, stop, narrived, now, file, pfx>>

\* lookup4, record found: when it expires before now + LeaseTime, set expiry
\* and hostname in rec, the copy of the map's record, and persist it
lookup4_renew(t) ==
    /\ tasks[t].pc = "lookup"
    /\ tasks[t].loc.at = "read"
    /\ tasks[t].loc.found
    /\ IF tasks[t].loc.rec.expires < now + LeaseTime
       THEN LET rec == [tasks[t].loc.rec EXCEPT !.expires = now + LeaseTime,
                                                !.hostname = tasks[t].m.hostname]
            IN  \/ /\ tasks' = [tasks EXCEPT ![t].loc.at = "done", ![t].loc.rec = rec,
                                              ![t].loc.err = "ErrSave"]
                   /\ rng' = rng
                \/ /\ rng' = [rng EXCEPT !.db = saveIPAddress(rng.db, tasks[t].m.mac, rec)]
                   /\ tasks' = [tasks EXCEPT ![t].loc.at = "done", ![t].loc.rec = rec,
                                              ![t].loc.wrote = TRUE]
       ELSE /\ tasks' = [tasks EXCEPT ![t].loc.at = "done"]
            /\ rng' = rng
    /\ UNCHANGED <<cmp, srv, chain, app, conns, ltask, egErr, stop, narrived, now, file, pfx>>

\* lookup4 returns (the read lock is released) and Handle4 goes on: on an
\* error it logs a warning, else it sets resp.YourIPAddr; then return next()
range_return(t) ==
    /\ tasks[t].pc = "lookup"
    /\ tasks[t].loc.at = "done"
    /\ LET i == Head(tasks[t].cl)
       IN  tasks' =
             IF tasks[t].loc.err # "nil"
             THEN [tasks EXCEPT ![t].loc.at = "returned",
                                ![t].stack = Append(@, i),
                                ![t].cl = Tail(@),
                                ![t].pc = "call"]
             ELSE [tasks EXCEPT ![t].loc.at = "returned",
                                ![t].resp.yiaddr = tasks[t].loc.rec.ip,
                                ![t].stack = Append(@, i),
                                ![t].cl = Tail(@),
                                ![t].pc = "call"]
    /\ UNCHANGED NotTasks

\* the DHCPv4 requests of the range handler specification
RangeDatagrams4 ==
    { d \in [fam : {4}, wf : {TRUE}, mt : {"Discover"}, op : {"BootRequest"},
             siaddr : {"zero"}, peer : {"client"}, mac : {"m1", "m2"},
             hostname : Hostnames] :
        d.mac = "m2" => d.hostname = "host" }

\* the chain of the range handler specification
RangeChains == {<<"range", "netmask">>}

\* the udp4 listener reads a well-formed request and spawns its handle task
\* (the server runs once the range module is provisioned)
range_serve ==
    /\ rng.state = "ok"
    /\ narrived < MaxDatagrams
    /\ narrived' = narrived + 1
    /\ \E d \in RangeDatagrams4 : tasks' = Append(tasks, NewTask(1, narrived + 1, d, Upeer4(d)))
    /\ UNCHANGED <<cmp, srv, chain, app, conns, ltask, egErr, stop, mods>>

\* one step of a handle task of the range handler specification
RangeHandleStep ==
    \E t \in TaskIds :
        \/ handle4(t)
        \/ range_Handle4(t)
        \/ lookup4_allocate(t)
        \/ lookup4_save(t)
        \/ lookup4_renew(t)
        \/ range_return(t)
        \/ handler_enter(t)
        \/ terminal_next(t)
        \/ handler_return(t)
        \/ handle4_reply(t)

InitRange ==
    /\ chain \in RangeChains
    /\ app = "started"
    /\ conns = StartedConns
    /\ ltask = StartedTasks
    /\ egErr = "nil"
    /\ stop = [pc |-> "idle", i |-> 1, result |-> "nil"]
    /\ tasks = <<>>
    /\ narrived = 0
    /\ now = 0
    /\ file = NoModule
    /\ pfx = NoModule
    /\ srv = NoAccessLog
    /\ cmp = NoCall
    /\ \E db \in RangeDbs : rng = NewRange(db)

NextRange ==
    \/ range_Provision
    \/ Tick
    \/ range_serve
    \/ RangeHandleStep

SpecRange == InitRange /\ [][NextRange]_vars

\* a database two lookups of one new MAC, run at the same time under the
\* read lock, leave behind: two rows of the MAC, one for each address
TwoLeasesOneMac ==
    {[mac |-> "m2", ip |-> "ip1", expiry |-> 2, hostname |-> "host"],
     [mac |-> "m2", ip |-> "ip2", expiry |-> 2, hostname |-> "host"]}

\* the databases a start can find: those of RangeDbs and the one above
PreloadDbs == RangeDbs \cup {TwoLeasesOneMac}

\* the range handler started on each of these databases
InitPreload ==
    /\ chain \in RangeChains
    /\ app = "started"
    /\ conns = StartedConns
    /\ ltask = StartedTasks
    /\ egErr = "nil"
    /\ stop = [pc |-> "idle", i |-> 1, result |-> "nil"]
    /\ tasks = <<>>
    /\ narrived = 0
    /\ now = 0
    /\ file = NoModule
    /\ pfx = NoModule
    /\ srv = NoAccessLog
    /\ cmp = NoCall
    /\ \E db \in PreloadDbs : rng = NewRange(db)

SpecPreload == InitPreload /\ [][NextRange]_vars

\* ---------------------------------------------------------- prefix handler
\* Prefixes: "pA", "pB" are the prefixes of length AllocationSize inside
\* m.Prefix, "pOut" is a prefix outside.  A prefix (a net.IPNet) is a
\* record [ip, len]; ip "nil" is the nil IP of the empty net.IPNet{}, ip
\* "zero" is the address ::.  The allocator (handlers/allocators/bitmap)
\* keeps the set of used prefixes.

Pool6 == {"pA", "pB"}

\* m.AllocationSize of a valid configuration
AllocationSize == 64

\* m.LeaseTime of the prefix module, in clock units
PrefixLeaseTime == 2

\* the empty hint Handle6 puts in for an IA_PD without IAPrefix options:
\* &net.IPNet{}
EmptyHint == [ip |-> "nil", len |-> 0]

\* the option Handle6 adds to an IA_PD response without prefix
NoPrefixAvail == [kind |-> "StatusCode", prefix |-> "NoPrefixAvail", len |-> 0, lifetime |-> 0]

\* m.allocator.Allocate(hint): the prefixes it can give (none: an error).
\* The zero prefix asks for any free one; a specific hint gives the hint if
\* it is in the pool and free; a hint of another length fails.
Allocate6(used, hint) ==
    IF hint.ip \in {"nil", "zero"}
    THEN IF hint.len \in {0, AllocationSize} THEN Pool6 \ used ELSE {}
    ELSE IF hint.len = AllocationSize /\ hint.ip \in Pool6 \ used THEN {hint.ip} ELSE {}

\* samePrefix(a, b) for a hint a and the prefix of a lease b (neither
\* pointer is nil): a.IP.Equal(b.IP) && bytes.Equal(a.Mask, b.Mask)
samePrefix(a, b) == a.ip = b.prefix /\ a.len = b.len

\* expire := time.Now().Add(m.LeaseTime); if l.Expire.Before(expire) then
\* l.Expire = expire
extend(l) ==
    IF l.expire < now + PrefixLeaseTime THEN [l EXCEPT !.expire = now + PrefixLeaseTime] ELSE l

\* addPrefix(resp, l): an IAPrefix option with both lifetimes time.Until(l.Expire)
addPrefix(opts, l) ==
    Append(opts, [kind |-> "IAPrefix", prefix |-> l.prefix, len |-> l.len,
                  lifetime |-> l.expire - now])

\* The reconciliation of one IA_PD works on a record st:
\*   known      knownLeases (shares its elements with m.records[duid])
\*   satisfied  the bits set in satisfied
\*   givenOut   the bits set in givenOut
\*   opts       iapdResp.Options
\*   used       the allocator's used prefixes
\*   isNew      newLeases != nil
\*   newLeases  newLeases

\* first pair of loops of Handle6 (exact match), from pair number k on; the
\* pairs (hintIdx, leaseIdx) are numbered in the order the loops visit them
RECURSIVE Handle6_exact(_, _, _)
Handle6_exact(k, hints, st) ==
    LET nl == Len(st.known)
    IN  IF nl = 0 \/ k >= Len(hints) * nl THEN st
        ELSE LET hintIdx  == (k \div nl) + 1
                 leaseIdx == (k % nl) + 1
             IN  IF samePrefix(hints[hintIdx], st.known[leaseIdx])
                 THEN Handle6_exact(k + 1, hints,
                        [st EXCEPT !.known[leaseIdx] = extend(@),
                                   !.satisfied = @ \cup {hintIdx},
                                   !.givenOut = @ \cup {leaseIdx},
                                   !.opts = addPrefix(@, extend(st.known[leaseIdx]))])
                 ELSE Handle6_exact(k + 1, hints, st)

\* second pair of loops of Handle6 (empty hints take the remaining leases);
\* before: the satisfied bits when the loops start (a hint's bit is tested
\* once, before its inner loop, which alone can set it)
RECURSIVE Handle6_remaining(_, _, _, _)
Handle6_remaining(k, hints, before, st) ==
    LET nl == Len(st.known)
    IN  IF nl = 0 \/ k >= Len(hints) * nl THEN st
        ELSE LET hintIdx  == (k \div nl) + 1
                 leaseIdx == (k % nl) + 1
                 h        == hints[hintIdx]
             IN  IF \/ hintIdx \in before
                    \/ h.ip # "zero"
                    \/ leaseIdx \in st.givenOut
                    \/ (h.len # 0 /\ h.len # st.known[leaseIdx].len)
                 THEN Handle6_remaining(k + 1, hints, before, st)
                 ELSE Handle6_remaining(k + 1, hints, before,
                        [st EXCEPT !.known[leaseIdx] = extend(@),
                                   !.satisfied = @ \cup {hintIdx},
                                   !.givenOut = @ \cup {leaseIdx},
                                   !.opts = addPrefix(@, extend(st.known[leaseIdx]))])

\* third loop of Handle6 (new leases), from hint i on: the set of the
\* records st it can end with, one for each choice of the allocator
RECURSIVE Handle6_allocate(_, _, _)
Handle6_allocate(i, hints, st) ==
    IF i > Len(hints) THEN {st}
    ELSE IF i \in st.satisfied THEN Handle6_allocate(i + 1, hints, st)
    ELSE LET free == Allocate6(st.used, hints[i])
         IN  IF free = {} THEN Handle6_allocate(i + 1, hints, st)
             ELSE UNION { LET l == [prefix |-> p, len |-> AllocationSize,
                                    expire |-> now + PrefixLeaseTime]
                          IN  Handle6_allocate(i + 1, hints,
                                [st EXCEPT !.used = @ \cup {p},
                                           !.opts = addPrefix(@, l),
                                           !.isNew = TRUE,
                                           !.newLeases = Append(st.known, l)])
                          : p \in free }

\* the body of the loop of Handle6 for one IA_PD of the request: the set of
\* its outcomes [m, opt, panic]: the module after it, the IA_PD response
\* option, and whether it wrote into the nil map m.records
Handle6_iapd(m, duid, iapd) ==
    LET hints == IF Len(iapd.hints) = 0 THEN <<EmptyHint>> ELSE iapd.hints
        known == IF duid \in DOMAIN m.records THEN m.records[duid] ELSE <<>>
        a     == Handle6_exact(0, hints,
                    [known |-> known, satisfied |-> {}, givenOut |-> {}, opts |-> <<>>,
                     used |-> m.used, isNew |-> FALSE, newLeases |-> <<>>])
        b     == Handle6_remaining(0, hints, a.satisfied, a)
    IN  { LET leases == IF c.isNew THEN c.newLeases ELSE c.known
              recs   == IF leases = <<>> /\ duid \notin DOMAIN m.records
                        THEN m.records
                        ELSE MapPut(m.records, duid, leases)
          IN  IF c.isNew /\ ~m.made
              THEN [m |-> [m EXCEPT !.used = c.used], panic |-> TRUE,
                    opt |-> [iaid |-> iapd.iaid, opts |-> c.opts]]
              ELSE [m |-> [m EXCEPT !.used = c.used, !.records = recs], panic |-> FALSE,
                    opt |-> [iaid |-> iapd.iaid,
                             opts |-> IF c.opts = <<>> THEN <<NoPrefixAvail>> ELSE c.opts]]
          : c \in Handle6_allocate(1, hints, b) }

\* the loop of Handle6 over req.Options.IAPD() from option j on, with added
\* the IA_PD options added to resp so far: the set of outcomes [m, added,
\* panic]
RECURSIVE Handle6_loop(_, _, _, _, _)
Handle6_loop(j, iapds, duid, m, added) ==
    IF j > Len(iapds) THEN {[m |-> m, added |-> added, panic |-> FALSE]}
    ELSE UNION { IF o.panic
                 THEN {[m |-> o.m, added |-> added, panic |-> TRUE]}
                 ELSE Handle6_loop(j + 1, iapds, duid, o.m, Append(added, o.opt))
                 : o \in Handle6_iapd(m, duid, iapds[j]) }

\* the IA_PD options of a DHCPv6 message (resp.Options.IAPD())
IAPD(msg) == IF "IAPD" \in DOMAIN msg.opts THEN msg.opts["IAPD"] ELSE <<>>

\* the configurations of the prefix module: a valid one, an unparseable
\* CIDR, an allocation size out of 0..128
PrefixConfigs ==
    {[prefix |-> "2001:db8::/32", allocationSize |-> AllocationSize],
     [prefix |-> "bad", allocationSize |-> AllocationSize],
     [prefix |-> "2001:db8::/32", allocationSize |-> 129]}

\* the prefix module before Provision (new(Module) and the JSON fields):
\* recLock is a nil pointer (FALSE) and records a nil map (made FALSE)
NewPrefix(cfg) ==
    [state |-> "new", cfg |-> cfg, used |-> {}, recLock |-> FALSE, made |-> FALSE,
     records |-> <<>>]

\* prefix.Module.Provision: parse the CIDR, check the allocation size, make
\* the allocator; it assigns neither m.recLock nor m.records
prefix_Provision ==
    /\ pfx.state = "new"
    /\ pfx' = IF pfx.cfg.prefix = "bad"
                 \/ pfx.cfg.allocationSize < 0 \/ pfx.cfg.allocationSize > 128
              THEN [pfx EXCEPT !.state = "failed"]
              ELSE [pfx EXCEPT !.state = "ok", !.used = {}]
    /\ UNCHANGED <<cmp, srv, chain, app, conns, ltask, egErr, stop, tasks, narrived, now, rng, file>>

\* prefix.Module.Handle4: return next()
prefix_Handle4(t) ==
    /\ tasks[t].pc = "call"
    /\ tasks[t].cl # <<>>
    /\ chain[Head(tasks[t].cl)] = "prefix"
    /\ tasks[t].m.fam = 4
    /\ tasks' = [tasks EXCEPT ![t].events = Append(@, <<"enter", Head(tasks[t].cl)>>),
                              ![t].stack = Append(@, Head(tasks[t].cl)),
                              ![t].cl = Tail(@)]
    /\ UNCHANGED NotTasks

\* prefix.Module.Handle6.  m.recLock.RLock() on the nil pointer is a nil
\* dereference: the goroutine panics (pc "panic"), and nothing recovers it.
\* The deferred function of handle6 runs while the panic unwinds.
\* With a lock, the loop over the IA_PD options runs, and return next().
prefix_Handle6(t) ==
    /\ tasks[t].pc = "call"
    /\ tasks[t].cl # <<>>
    /\ chain[Head(tasks[t].cl)] = "prefix"
    /\ tasks[t].m.fam = 6
    /\ LET i == Head(tasks[t].cl)
       IN  IF ~pfx.recLock
           THEN /\ tasks' = [tasks EXCEPT ![t].events = Append(@, <<"enter", i>>),
                                          ![t].alog = IF srv.accessLog THEN @ + 1 ELSE @,
                                          ![t].pc = "panic"]
                /\ pfx' = pfx
           ELSE \E o \in Handle6_loop(1, tasks[t].m.iapd, tasks[t].m.duid, pfx, <<>>) :
                  /\ pfx' = o.m
                  /\ tasks' =
                       IF o.panic
                       THEN [tasks EXCEPT ![t].events = Append(@, <<"enter", i>>),
                                          ![t].resp = UpdateOption(@, "IAPD", IAPD(@) \o o.added),
                                          ![t].alog = IF srv.accessLog THEN @ + 1 ELSE @,
                                          ![t].pc = "panic"]
                       ELSE [tasks EXCEPT ![t].events = Append(@, <<"enter", i>>),
                                          ![t].resp = IF o.added = <<>> THEN @
                                                      ELSE UpdateOption(@, "IAPD", IAPD(@) \o o.added),
                                          ![t].stack = Append(@, i),
                                          ![t].cl = Tail(@)]
    /\ UNCHANGED <<cmp, srv, chain, app, conns, ltask, egErr, stop, narrived, now, rng, file>>

\* a panic of a handle task ends the process
Crashed == \E t \in TaskIds : tasks[t].pc = "panic"

\* the IA_PD options of the requests: none, one without hint, one asking
\* for "pA", one asking twice for "pA", one with a length-only and a zero
\* hint, two IA_PDs
IAPDRequests ==
    {<<>>,
     <<[iaid |-> "i1", hints |-> <<>>]>>,
     <<[iaid |-> "i1", hints |-> <<[ip |-> "pA", len |-> AllocationSize]>>]>>,
     <<[iaid |-> "i1", hints |-> <<[ip |-> "pA", len |-> AllocationSize],
                                  [ip |-> "pA", len |-> AllocationSize]>>]>>,
     <<[iaid |-> "i1", hints |-> <<[ip |-> "zero", len |-> AllocationSize],
                                  [ip |-> "zero", len |-> 0]>>]>>,
     <<[iaid |-> "i2", hints |-> <<[ip |-> "pOut", len |-> AllocationSize]>>],
       [iaid |-> "i1", hints |-> <<>>]>>}

\* the DHCPv6 requests of the prefix handler specification
PrefixDatagrams6 ==
    [fam : {6}, wf : {TRUE}, relay : {FALSE}, inner : {TRUE}, mt : {"Solicit"},
     rapid : {FALSE}, sid : {"none", "mine"}, build : {TRUE}, wrap : {TRUE},
     peer : {"client"}, duid : {"d1", "d2"}, iapd : IAPDRequests]

\* the DHCPv4 requests of the prefix handler specification
PrefixDatagrams4 ==
    [fam : {4}, wf : {TRUE}, mt : {"Discover"}, op : {"BootRequest"},
     siaddr : {"zero", "other"}, peer : {"client"}]

\* the chains of the prefix handler specification
PrefixChains == {<<"prefix">>, <<"serverid", "prefix">>, <<"prefix", "netmask">>}

\* a listener reads a well-formed request and spawns its handle task (the
\* server runs once the prefix module is provisioned)
prefix_serve ==
    /\ pfx.state = "ok"
    /\ ~Crashed
    /\ narrived < MaxDatagrams
    /\ narrived' = narrived + 1
    /\ \/ \E d \in PrefixDatagrams4 :
            tasks' = Append(tasks, NewTask(1, narrived + 1, d, Upeer4(d)))
       \/ \E d \in PrefixDatagrams6 :
            tasks' = Append(tasks, NewTask(2, narrived + 1, d, d.peer))
    /\ UNCHANGED <<cmp, srv, chain, app, conns, ltask, egErr, stop, mods>>

\* one step of a handle task of the prefix handler specification
PrefixHandleStep ==
    /\ ~Crashed
    /\ \E t \in TaskIds :
        \/ handle4(t)
        \/ handle6(t)
        \/ prefix_Handle4(t)
        \/ prefix_Handle6(t)
        \/ handler_enter(t)
        \/ terminal_next(t)
        \/ handler_return(t)
        \/ handle4_reply(t)
        \/ handle6_reply(t)

InitPrefix ==
    /\ chain \in PrefixChains
    /\ app = "started"
    /\ conns = StartedConns
    /\ ltask = StartedTasks
    /\ egErr = "nil"
    /\ stop = [pc |-> "idle", i |-> 1, result |-> "nil"]
    /\ tasks = <<>>
    /\ narrived = 0
    /\ now = 0
    /\ rng = NoModule
    /\ file = NoModule
    /\ \E cfg \in PrefixConfigs : pfx = NewPrefix(cfg)
    /\ srv = NoAccessLog
    /\ cmp = NoCall

NextPrefix ==
    \/ prefix_Provision
    \/ Tick
    \/ prefix_serve
    \/ PrefixHandleStep

SpecPrefix == InitPrefix /\ [][NextPrefix]_vars

\* ------------------------------------------------- option handlers at work
\* One request on a server whose chain is made of option handlers and of
\* the file, range and prefix modules.

\* the chain has a handler of this kind
InChain(kind) == \E i \in 1..Len(chain) : chain[i] = kind

\* range.Module.lookup6: m.records6 is never assigned, and reading the nil
\* map gives the zero record, whose IP is nil, and no error
range_lookup6(duid) == [ip |-> "nil", err |-> "nil"]

\* resp.AddOption(&dhcpv6.OptIANA{IaId, Options: {OptIAAddress{ip}}})
AddIANA(resp, iaid, ip) ==
    UpdateOption(resp, "IANA",
                 (IF "IANA" \in DOMAIN resp.opts THEN resp.opts["IANA"] ELSE <<>>)
                   \o <<[iaid |-> iaid, addr |-> ip]>>)

\* range.Module.Handle6: nothing for a request without IA_NA; else lookup6
\* and an IA_NA option with the address found, then return next()
range_Handle6(t) ==
    /\ tasks[t].pc = "call"
    /\ tasks[t].cl # <<>>
    /\ chain[Head(tasks[t].cl)] = "range"
    /\ tasks[t].m.fam = 6
    /\ LET i == Head(tasks[t].cl)
           r == range_lookup6(tasks[t].m.duid)
       IN  tasks' =
             IF ~tasks[t].m.iana \/ r.err # "nil"
             THEN [tasks EXCEPT ![t].events = Append(@, <<"enter", i>>),
                                ![t].stack = Append(@, i),
                                ![t].cl = Tail(@)]
             ELSE [tasks EXCEPT ![t].events = Append(@, <<"enter", i>>),
                                ![t].resp = AddIANA(@, "ia1", r.ip),
                                ![t].stack = Append(@, i),
                                ![t].cl = Tail(@)]
    /\ UNCHANGED NotTasks

\* file.Module.Handle6: nothing for a request without IA_NA or with an
\* unknown DUID; else an IA_NA option with the address of records6
file_Handle6(t) ==
    /\ tasks[t].pc = "call"
    /\ tasks[t].cl # <<>>
    /\ chain[Head(tasks[t].cl)] = "file"
    /\ tasks[t].m.fam = 6
    /\ LET i   == Head(tasks[t].cl)
           key == tasks[t].m.duid
       IN  tasks' =
             IF ~tasks[t].m.iana \/ key \notin DOMAIN file.records6
             THEN [tasks EXCEPT ![t].events = Append(@, <<"enter", i>>),
                                ![t].stack = Append(@, i),
                                ![t].cl = Tail(@)]
             ELSE [tasks EXCEPT ![t].events = Append(@, <<"enter", i>>),
                                ![t].resp = AddIANA(@, "ia1", file.records6[key]),
                                ![t].stack = Append(@, i),
                                ![t].cl = Tail(@)]
    /\ UNCHANGED NotTasks

\* the sets of requested DHCPv4 option codes: none, each code alone, all
OptionCodes4 == {"IPv6OnlyPreferred", "IPAddressLeaseTime", "InterfaceMTU", "Router",
                 "DomainNameServer", "DNSDomainSearchList", "ClasslessStaticRoute",
                 "SubnetMask"}

Requested4 == {{}, OptionCodes4} \cup {{c} : c \in OptionCodes4}

\* the DHCPv4 requests of this specification; the lease file knows "m1"
OptionDatagrams4 ==
    [fam : {4}, wf : {TRUE}, mt : {"Discover", "Request"}, op : {"BootRequest", "BootReply"},
     siaddr : {"zero"}, peer : {"client"}, mac : {"m1", "m3"}, hostname : {"host"},
     requested : Requested4, autoconf : BOOLEAN]

\* the DHCPv6 requests of this specification; the lease file knows "m2"
OptionDatagrams6 ==
    [fam : {6}, wf : {TRUE}, relay : {FALSE}, inner : {TRUE}, mt : {"Solicit"},
     rapid : {FALSE}, sid : {"none"}, build : {TRUE}, wrap : {TRUE}, peer : {"client"},
     duid : {"m2", "d1"}, iapd : {<<>>}, iana : BOOLEAN,
     requested : SUBSET {"DNSRecursiveNameServer", "DomainSearchList"}]

\* the chains of this specification
OptionChains ==
    {<<"ipv6only", "netmask">>,
     <<"netmask", "netmaskB">>,
     <<"netmaskB", "netmask">>,
     <<"file", "range">>,
     <<"range", "file">>,
     <<"autoconfigure", "netmask">>,
     <<"file", "autoconfigure", "router">>,
     <<"leasetime", "mtu">>,
     <<"router", "dns", "staticroute">>,
     <<"searchdomains", "dns">>,
     <<"prefix", "netmask">>}

\* the lease file of this specification
OptionsDisk ==
    [ok |-> TRUE,
     lines |-> <<TextLine(<<"m1", "ip2">>), TextLine(<<"m2", "ip6">>)>>]

\* the lease database of this specification: a lease of "m1"
OptionsDb == {[mac |-> "m1", ip |-> "ip1", expiry |-> 2, hostname |-> "host"]}

\* every configured module is provisioned
Provisioned ==
    /\ file.state \in {"none", "ok"}
    /\ rng.state \in {"none", "ok"}
    /\ pfx.state \in {"none", "ok"}

\* a listener reads the request and spawns its handle task
options_arrive ==
    /\ Provisioned
    /\ tasks = <<>>
    /\ narrived' = narrived + 1
    /\ \/ \E d \in OptionDatagrams4 : tasks' = <<NewTask(1, 1, d, Upeer4(d))>>
       \/ \E d \in OptionDatagrams6 : tasks' = <<NewTask(2, 1, d, d.peer)>>
    /\ UNCHANGED <<cmp, srv, chain, app, conns, ltask, egErr, stop, mods>>

\* one step of the handle task
OptionHandleStep ==
    \E t \in TaskIds :
        \/ handle4(t)
        \/ handle6(t)
        \/ handler_enter(t)
        \/ file_Handle4(t)
        \/ file_Handle6(t)
        \/ range_Handle4(t)
        \/ lookup4_allocate(t)
        \/ lookup4_save(t)
        \/ lookup4_renew(t)
        \/ range_return(t)
        \/ range_Handle6(t)
        \/ prefix_Handle4(t)
        \/ prefix_Handle6(t)
        \/ terminal_next(t)
        \/ handler_return(t)
        \/ handle4_reply(t)
        \/ handle6_reply(t)

InitOptions ==
    /\ chain \in OptionChains
    /\ app = "started"
    /\ conns = StartedConns
    /\ ltask = StartedTasks
    /\ egErr = "nil"
    /\ stop = [pc |-> "idle", i |-> 1, result |-> "nil"]
    /\ tasks = <<>>
    /\ narrived = 0
    /\ now = 0
    /\ srv = NoAccessLog
    /\ cmp = NoCall
    /\ file = IF InChain("file") THEN NewFile(FALSE, OptionsDisk) ELSE NoModule
    /\ rng = IF InChain("range") THEN NewRange(OptionsDb) ELSE NoModule
    /\ pfx = IF InChain("prefix") THEN NewPrefix(CHOOSE c \in PrefixConfigs :
                                                   c.prefix # "bad" /\ c.allocationSize = AllocationSize)
             ELSE NoModule

NextOptions ==
    \/ file_Provision
    \/ range_Provision
    \/ prefix_Provision
    \/ options_arrive
    \/ OptionHandleStep

SpecOptions == InitOptions /\ [][NextOptions]_vars

\* ------------------------------------------------ the passes of Handle6
\* The reconciliation loops of prefix.Module.Handle6 (lines 84-202) applied
\* to a module that has its lock and its map and holds leases: the inputs of
\* the loops are drawn from the sets below.

\* a lease of records[duid] that does not expire before now + leaseTime
KnownLease(p) == [prefix |-> p, len |-> AllocationSize, expire |-> PrefixLeaseTime]

\* m.records: no lease, one lease of "d1", two leases of "d1"
KnownRecords ==
    {<<>>,
     [d \in {"d1"} |-> <<KnownLease("pA")>>],
     [d \in {"d1"} |-> <<KnownLease("pA"), KnownLease("pB")>>]}

\* the module the loops run on: every leased prefix is used in the allocator
PassesModule(recs) ==
    [state |-> "ok", cfg |-> [prefix |-> "2001:db8::/32", allocationSize |-> AllocationSize],
     used |-> UNION {{recs[d][k].prefix : k \in 1..Len(recs[d])} : d \in DOMAIN recs},
     recLock |-> TRUE, made |-> TRUE, records |-> recs]

\* one DHCPv6 request is read and its handle task spawned
passes_serve ==
    /\ tasks = <<>>
    /\ narrived' = narrived + 1
    /\ \E d \in {x \in PrefixDatagrams6 : x.sid = "none"} :
          tasks' = <<NewTask(2, 1, d, d.peer)>>
    /\ UNCHANGED <<cmp, srv, chain, app, conns, ltask, egErr, stop, mods>>

\* one step of the handle task
PassesHandleStep ==
    \E t \in TaskIds :
        \/ handle6(t)
        \/ prefix_Handle6(t)
        \/ handler_enter(t)
        \/ terminal_next(t)
        \/ handler_return(t)
        \/ handle6_reply(t)

InitPasses ==
    /\ chain \in PrefixChains
    /\ app = "started"
    /\ conns = StartedConns
    /\ ltask = StartedTasks
    /\ egErr = "nil"
    /\ stop = [pc |-> "idle", i |-> 1, result |-> "nil"]
    /\ tasks = <<>>
    /\ narrived = 0
    /\ now = 0
    /\ rng = NoModule
    /\ file = NoModule
    /\ srv = NoAccessLog
    /\ cmp = NoCall
    /\ \E recs \in KnownRecords : pfx = PassesModule(recs)

NextPasses ==
    \/ passes_serve
    \/ PassesHandleStep

SpecPasses == InitPasses /\ [][NextPasses]_vars

\* ------------------------------------------------------------- samePrefix
\* A *net.IPNet is a record [def, ip, len]: def FALSE is the nil pointer
\* (NilNet); ip "nil" is the nil IP and len 0 the nil mask, both of
\* &net.IPNet{}.

NilNet == [def |-> FALSE, ip |-> "nil", len |-> 0]

Nets == {NilNet} \cup
        [def : {TRUE}, ip : {"nil", "zero", "pA", "pB", "pOut"}, len : {0, AllocationSize}]

\* net.IP.Equal: IPs of the same length are equal when their bytes are; a nil
\* IP has length 0 and is equal to a nil IP only
IP_Equal(x, y) == x = y

\* samePrefix(a, b *net.IPNet): false when a pointer is nil, else
\* a.IP.Equal(b.IP) && bytes.Equal(a.Mask, b.Mask)
samePrefix_nets(a, b) ==
    IF ~a.def \/ ~b.def THEN "false"
    ELSE IF IP_Equal(a.ip, b.ip) /\ a.len = b.len THEN "true" ELSE "false"

\* the call returns
samePrefix_return ==
    /\ cmp.res = "none"
    /\ "a" \in DOMAIN cmp
    /\ cmp' = [cmp EXCEPT !.res = samePrefix_nets(cmp.a, cmp.b)]
    /\ UNCHANGED <<srv, chain, app, conns, ltask, egErr, stop, tasks, narrived, mods>>

InitSame ==
    /\ chain = <<"prefix">>
    /\ app = "started"
    /\ conns = StartedConns
    /\ ltask = StartedTasks
    /\ egErr = "nil"
    /\ stop = [pc |-> "idle", i |-> 1, result |-> "nil"]
    /\ tasks = <<>>
    /\ narrived = 0
    /\ now = 0
    /\ rng = NoModule
    /\ file = NoModule
    /\ pfx = NoModule
    /\ srv = NoAccessLog
    /\ cmp \in [a : Nets, b : Nets, res : {"none"}]

SpecSame == InitSame /\ [][samePrefix_return]_vars

\* ------------------------------------------------------------------ claims

Range(s) == {s[k] : k \in 1..Len(s)}

IsPrefix(s, u) == Len(s) <= Len(u) /\ s = SubSeq(u, 1, Len(s))

\* <<"enter", 1>>, ..., <<"enter", k>>
Enters(k) == [j \in 1..k |-> <<"enter", j>>]

\* <<"return", k>>, ..., <<"return", 1>>
Returns(k) == [j \in 1..k |-> <<"return", k + 1 - j>>]

\* the chain was invoked for the task / has returned to the dispatcher
ChainInvoked(task) ==
    task.pc \in {"call", "unwind"} \/ (task.pc = "done" /\ task.events # <<>>)

ChainReturned(task) ==
    (task.pc = "unwind" /\ task.stack = <<>>) \/ (task.pc = "done" /\ task.events # <<>>)

\* C1: when every handler of the chain h1..hn calls next, the handlers are
\* entered in the order h1, ..., hn, each once, then the terminal next runs,
\* then the handlers return from next in the order hn, ..., h1; while the
\* chain runs, what has happened so far is a prefix of that sequence.
C1_ChainOrder ==
    \A t \in TaskIds :
        LET n    == Len(chain)
            full == Enters(n) \o <<(<<"terminal", 0>>)>> \o Returns(n)
        IN  /\ (tasks[t].stopAt = 0 => IsPrefix(tasks[t].events, full))
            /\ (ChainReturned(tasks[t]) /\ tasks[t].stopAt = 0 => tasks[t].events = full)

C1_Witness ==
    \E t \in TaskIds :
        /\ Len(chain) >= 3
        /\ tasks[t].pc = "done"
        /\ tasks[t].stopAt = 0
        /\ tasks[t].events =
             <<(<<"enter", 1>>), <<"enter", 2>>, <<"enter", 3>>, <<"terminal", 0>>,
               <<"return", 3>>, <<"return", 2>>, <<"return", 1>>>>

\* what the dispatcher writes for a task whose chain returned nil
Payload(task) ==
    IF task.m.fam = 6 /\ task.m.relay
    THEN NewRelayReplFromRelayForw(task.m, task.resp)
    ELSE task.resp

\* C2: if handler k returns nil without calling next, no later handler and
\* not the terminal next is entered, the chain returns nil, and the
\* dispatcher still calls WriteTo with the response for the peer (on the
\* DHCPv6 path unless re-encapsulating a relayed request fails); the write
\* reaches the peer unless the connection was closed.
C2_ShortCircuit ==
    \A t \in TaskIds :
        LET k == tasks[t].stopAt
        IN  (k # 0 /\ tasks[t].out = "nil") =>
              /\ \A e \in Range(tasks[t].events) :
                    e[1] # "terminal" /\ (e[1] = "enter" => e[2] <= k)
              /\ tasks[t].res = "nil"
              /\ (tasks[t].pc = "done" /\ ~(tasks[t].m.fam = 6 /\ tasks[t].m.relay /\ ~tasks[t].m.wrap) =>
                    /\ tasks[t].wcall
                    /\ (tasks[t].sent = NotSent => conns[tasks[t].lid].closed)
                    /\ (tasks[t].sent # NotSent =>
                          tasks[t].sent = [dst |-> tasks[t].peer, msg |-> Payload(tasks[t])]))

C2_Witness ==
    \E t \in TaskIds :
        /\ tasks[t].m.fam = 4
        /\ Len(chain) = 3
        /\ tasks[t].stopAt = 2
        /\ tasks[t].out = "nil"
        /\ tasks[t].pc = "done"
        /\ tasks[t].events = <<(<<"enter", 1>>), <<"enter", 2>>, <<"return", 1>>>>
        /\ tasks[t].sent = [dst |-> tasks[t].peer, msg |-> tasks[t].resp]

\* C3: if handler k returns an error, no later handler and not the terminal
\* next is entered, the handlers 1..k-1 return from next (k-1 first), the
\* chain returns that same error, and the dispatcher never calls WriteTo for
\* the request, on the DHCPv4 and on the DHCPv6 path.
C3_ErrorAbort ==
    \A t \in TaskIds :
        LET k == tasks[t].stopAt
        IN  (k # 0 /\ tasks[t].out # "nil") =>
              /\ \A e \in Range(tasks[t].events) :
                    e[1] # "terminal" /\ (e[1] = "enter" => e[2] <= k)
              /\ tasks[t].res = tasks[t].out
              /\ (ChainReturned(tasks[t]) => tasks[t].events = Enters(k) \o Returns(k - 1))
              /\ ~tasks[t].wcall
              /\ tasks[t].sent = NotSent

C3_Witness ==
    \E t \in TaskIds :
        /\ tasks[t].m.fam = 6
        /\ Len(chain) = 3
        /\ tasks[t].stopAt = 3
        /\ tasks[t].out = "ErrLog"
        /\ tasks[t].pc = "done"
        /\ tasks[t].events =
             <<(<<"enter", 1>>), <<"enter", 2>>, <<"enter", 3>>, <<"return", 2>>, <<"return", 1>>>>
        /\ tasks[t].sent = NotSent

\* C4: a DHCPv4 Discover is handled with a response of type Offer and a
\* Request with one of type Ack, from the chain's invocation on and in what
\* is written; for any other message type the chain is never invoked and
\* nothing is written.
C4_ReplyType4 ==
    \A t \in TaskIds :
        (tasks[t].m.fam = 4 /\ tasks[t].pc # "start") =>
           LET want == CASE tasks[t].m.mt = "Discover" -> "Offer"
                         [] tasks[t].m.mt = "Request" -> "Ack"
                         [] OTHER -> "None"
           IN  IF want = "None"
               THEN /\ ~ChainInvoked(tasks[t])
                    /\ ~tasks[t].wcall
                    /\ tasks[t].sent = NotSent
               ELSE /\ ChainInvoked(tasks[t])
                    /\ tasks[t].resp.opts["MessageType"] = want
                    /\ (tasks[t].sent # NotSent => tasks[t].sent.msg.opts["MessageType"] = want)

C4_Witness ==
    \E t \in TaskIds :
        /\ tasks[t].m.fam = 4
        /\ tasks[t].m.mt = "Request"
        /\ tasks[t].pc = "done"
        /\ tasks[t].sent # NotSent
        /\ tasks[t].sent.msg.opts["MessageType"] = "Ack"

\* the reply type the dispatcher is to choose for an inner DHCPv6 message
\* type, "None" for an unsupported one
WantType6(mt, rapid) ==
    CASE mt = "Solicit" -> IF rapid THEN "Reply" ELSE "Advertise"
      [] mt \in {"Request", "Confirm", "Renew", "Rebind", "Release", "InformationRequest"} -> "Reply"
      [] OTHER -> "None"

\* C5: for a DHCPv6 request whose inner message is found, the chain is
\* invoked with a Reply for a Solicit with RapidCommit, an Advertise for a
\* Solicit without, a Reply for Request, Confirm, Renew, Rebind, Release and
\* InformationRequest (provided the reply constructor succeeds), relayed or
\* not; for any other inner type no handler is invoked and nothing is written.
C5_ReplyType6 ==
    \A t \in TaskIds :
        (tasks[t].m.fam = 6 /\ tasks[t].pc # "start" /\ tasks[t].m.inner) =>
           LET want == WantType6(tasks[t].m.mt, tasks[t].m.rapid)
           IN  IF want = "None"
               THEN /\ ~ChainInvoked(tasks[t])
                    /\ ~tasks[t].wcall
                    /\ tasks[t].sent = NotSent
               ELSE /\ (tasks[t].m.build <=> ChainInvoked(tasks[t]))
                    /\ (ChainInvoked(tasks[t]) => tasks[t].resp.type = want)

C5_Witness ==
    \E t \in TaskIds :
        /\ tasks[t].m.fam = 6
        /\ tasks[t].m.relay
        /\ tasks[t].m.mt = "Solicit"
        /\ tasks[t].m.rapid
        /\ tasks[t].pc = "done"
        /\ tasks[t].events # <<>>
        /\ tasks[t].resp.type = "Reply"

\* C6: whatever is written for a relayed DHCPv6 request is the response
\* wrapped by NewRelayReplFromRelayForw, for a request that is not relayed the
\* bare response; when the wrapping fails WriteTo is never called; when it
\* succeeds and the chain returned nil, WriteTo is called.
C6_RelayWrap ==
    \A t \in TaskIds :
        tasks[t].m.fam = 6 =>
           /\ (tasks[t].sent # NotSent =>
                 tasks[t].sent.msg =
                    IF tasks[t].m.relay
                    THEN [fam |-> 6, type |-> "RelayRepl", inner |-> tasks[t].resp]
                    ELSE tasks[t].resp)
           /\ (tasks[t].m.relay /\ ~tasks[t].m.wrap => ~tasks[t].wcall /\ tasks[t].sent = NotSent)
           /\ (tasks[t].pc = "done" /\ tasks[t].events # <<>> /\ tasks[t].res = "nil"
                 /\ (tasks[t].m.relay => tasks[t].m.wrap) => tasks[t].wcall)

C6_Witness ==
    \E t \in TaskIds :
        /\ tasks[t].m.fam = 6
        /\ tasks[t].m.relay
        /\ tasks[t].pc = "done"
        /\ tasks[t].sent # NotSent
        /\ tasks[t].sent.msg.type = "RelayRepl"
        /\ tasks[t].sent.msg.inner = tasks[t].resp

\* C7: when Stop has returned, every listener is closed, every listener task
\* has exited and the result is the first non-nil error of the wait-group.
C7_StopClosesAndWaits ==
    stop.pc = "returned" =>
        /\ \A l \in ConnIds : conns[l].closed /\ ltask[l].pc = "exited"
        /\ stop.result = egErr

\* C8: a listener task whose connection was closed exits with the
\* closed-socket error, and when Stop has closed every listener, has waited
\* for the tasks and no listener failed to read from an open connection,
\* Stop returns nil.
C8_CleanShutdown ==
    /\ \A l \in ConnIds : ltask[l].err = "ErrClosed" => ltask[l].pc = "exited" /\ conns[l].closed
    /\ (stop.pc = "returned" /\ stop.i > Len(conns) /\ \A l \in ConnIds : ltask[l].err # "ErrRead")
          => stop.result = "nil"

\* C9: no step of Stop changes a handle task, and the handle tasks run until
\* they return whatever Stop does meanwhile: from some point on every handle
\* task that was spawned has returned.
C9_NoCancel ==
    /\ [][stop' # stop => tasks' = tasks]_vars
    /\ <>[](\A t \in TaskIds : tasks[t].pc = "done")

C9_Witness ==
    /\ stop.pc = "returned"
    /\ \A l \in ConnIds : ltask[l].pc = "exited"
    /\ \E t \in TaskIds : tasks[t].pc = "call" /\ tasks[t].events # <<>>

\* C10: the step in which a listener fails to parse a datagram spawns no
\* handle task, changes no task (so writes nothing) and leaves the listener
\* in its read loop; no handle task ever works on a dropped datagram, and
\* every datagram that was read and not dropped has its handle task.
C10_ParseErrorDropped ==
    /\ [][\A l \in ConnIds :
            ltask'[l].dropped # ltask[l].dropped =>
               /\ tasks' = tasks
               /\ ltask'[l].pc = "reading"
               /\ conns' = conns]_vars
    /\ [](/\ \A t \in TaskIds : \A l \in ConnIds : tasks[t].seq \notin ltask[l].dropped
          /\ \A n \in 1..narrived :
                (\E l \in ConnIds : n \in ltask[l].dropped) \/ (\E t \in TaskIds : tasks[t].seq = n))

C10_Witness ==
    \E t \in TaskIds :
        /\ ltask[tasks[t].lid].dropped # {}
        /\ \A n \in ltask[tasks[t].lid].dropped : n < tasks[t].seq
        /\ tasks[t].pc = "done"
        /\ tasks[t].sent # NotSent

\* C11: a listener that is in its read loop on an open connection can read
\* the next datagram whatever the handle tasks are doing (it never waits for
\* one), and the step that spawns a handle task leaves the listener in its
\* read loop and every other handle task as it was.
C11_ConcurrentDispatch ==
    /\ [][Len(tasks') > Len(tasks) =>
            /\ ltask' = ltask
            /\ Len(tasks') = Len(tasks) + 1
            /\ SubSeq(tasks', 1, Len(tasks)) = tasks
            /\ tasks'[Len(tasks')].pc = "start"]_vars
    /\ [](\A l \in ConnIds :
            (ltask[l].pc = "reading" /\ ~conns[l].closed /\ narrived < MaxDatagrams)
               => ENABLED (listen4(l) \/ listen6(l)))

\* the first request is still in the sleep handler while a later request of
\* the same listener has been answered
C11_Witness ==
    /\ Len(tasks) >= 2
    /\ chain = <<"sleep">>
    /\ tasks[1].lid = tasks[2].lid
    /\ tasks[1].pc = "call"
    /\ tasks[1].cl = <<1>>
    /\ tasks[1].sent = NotSent
    /\ tasks[2].pc = "done"
    /\ tasks[2].sent # NotSent

\* C12: once Start has returned, every (interface, address) pair of the
\* provisioned server has exactly one listener bound to it, and there is
\* exactly one listener task per listener and no listener besides these.
C12_ListenerPerTuple ==
    app = "started" =>
        /\ \A i \in Range(Interfaces) : \A a \in 1..Len(Addresses) :
               Cardinality({l \in ConnIds : conns[l].iface = i /\ conns[l].addr = a}) = 1
        /\ Len(conns) = Len(Interfaces) * Len(Addresses)
        /\ Len(ltask) = Len(conns)

\* C20: with a serverid handler (id X) in the chain, a DHCPv4 BootRequest
\* whose siaddr names another server has nothing written to its peer, and
\* whatever is written for a BootRequest naming X or no server carries the
\* server-identifier option X.
C20_ServerIdDrop ==
    \A t \in TaskIds :
        (tasks[t].m.fam = 4 /\ tasks[t].m.op = "BootRequest" /\ "serverid" \in Range(chain)) =>
           /\ (tasks[t].m.siaddr = "other" => ~tasks[t].wcall /\ tasks[t].sent = NotSent)
           /\ (tasks[t].m.siaddr # "other" /\ tasks[t].sent # NotSent =>
                  /\ "ServerIdentifier" \in DOMAIN tasks[t].sent.msg.opts
                  /\ tasks[t].sent.msg.opts["ServerIdentifier"] = "mine")

\* C13: once the range module is provisioned, every address held by a record
\* of records4 is used in the allocator, whatever lookups have run or are
\* running.
C13_RecordsAllocated ==
    rng.state = "ok" =>
        \A mac \in DOMAIN rng.records4 : rng.records4[mac].ip \in rng.used

\* one record was preloaded by Provision, one was written by a lookup
C13_Witness ==
    /\ rng.state = "ok"
    /\ DOMAIN rng.records4 = {"m1", "m2"}
    /\ \E t \in TaskIds : tasks[t].loc.at = "returned" /\ tasks[t].loc.wrote /\ ~tasks[t].loc.found
    /\ \E t \in TaskIds : tasks[t].loc.at = "returned" /\ tasks[t].loc.found

\* position of the range handler in the chain (0: not configured)
RangePos == IF \E i \in 1..Len(chain) : chain[i] = "range"
            THEN CHOOSE i \in 1..Len(chain) : chain[i] = "range"
            ELSE 0

\* C14: when lookup4 failed for a request, no handler after the range
\* handler and not the terminal next is entered, nothing is written for the
\* request, and the chain returns an error.
C14_LookupErrorAborts ==
    \A t \in TaskIds :
        (tasks[t].loc.at \in {"done", "returned"} /\ tasks[t].loc.err # "nil") =>
            /\ \A e \in Range(tasks[t].events) :
                  e[1] # "terminal" /\ (e[1] = "enter" => e[2] <= RangePos)
            /\ ~tasks[t].wcall
            /\ tasks[t].sent = NotSent
            /\ (ChainReturned(tasks[t]) => tasks[t].res # "nil")

\* C15: for a MAC without a record lookup4 allocates an address that was
\* free and builds the record {ip, now + LeaseTime, hostname}; the step that
\* persists it stores that record in records4; and after every step in which
\* lookup4 persisted a record (a new or a renewed one), loading the store
\* again (loadRecords4) gives for that MAC a record equal to the written one.
C15_PersistRoundTrip ==
    [][\A t \in TaskIds :
         /\ (tasks[t].pc = "lookup" /\ tasks[t].loc.at = "read"
                /\ tasks'[t].loc.at = "allocated") =>
               /\ tasks'[t].loc.rec.ip \in Pool4 \ rng.used
               /\ tasks'[t].loc.rec.ip \in rng'.used
               /\ tasks'[t].loc.rec.expires = now + LeaseTime
               /\ tasks'[t].loc.rec.hostname = tasks[t].m.hostname
         /\ (tasks[t].pc = "lookup" /\ ~tasks[t].loc.wrote /\ tasks'[t].loc.wrote) =>
               LET mac == tasks[t].m.mac
                   rec == tasks'[t].loc.rec
               IN  /\ (~tasks[t].loc.found =>
                         /\ rec = tasks[t].loc.rec
                         /\ mac \in DOMAIN rng'.records4
                         /\ rng'.records4[mac] = rec)
                   /\ \A recs \in loadRecords4(rng'.db) :
                         mac \in DOMAIN recs /\ recs[mac] = rec]_vars

\* position of the prefix handler in the chain (0: not in the chain)
PrefixPos == IF \E i \in 1..Len(chain) : chain[i] = "prefix"
             THEN CHOOSE i \in 1..Len(chain) : chain[i] = "prefix"
             ELSE 0

\* the task has come out of the prefix handler's Handle6 (it called next)
PassedPrefix(task) ==
    /\ task.m.fam = 6
    /\ task.pc # "panic"
    /\ \E k \in 1..Len(task.events) : task.events[k] = <<"enter", PrefixPos>>

\* the prefixes of the IAPrefix options of a response, IA_PD by IA_PD
PrefixesOf(resp) ==
    [j \in 1..Len(IAPD(resp)) |->
        LET opts == IAPD(resp)[j].opts
        IN  {<<opts[k].prefix, opts[k].len>> :
                k \in {x \in 1..Len(opts) : opts[x].kind = "IAPrefix"}}]

\* C16: prefix delegation is idempotent per DUID.  Every DHCPv6 request the
\* prefix handler takes comes out of it, and when an earlier request of the
\* same DUID with the same IA_PD options and hints has come out of it, the
\* repeated request gets the same prefixes, the allocator gives out no new
\* prefix, and no lease of the DUID gets an earlier expiry.
C16_PrefixIdempotent ==
    [][\A t \in TaskIds :
          prefix_Handle6(t) =>
            /\ tasks'[t].pc # "panic"
            /\ \A s \in TaskIds :
                 (/\ s # t
                  /\ PassedPrefix(tasks[s])
                  /\ tasks[s].m.duid = tasks[t].m.duid
                  /\ tasks[s].m.iapd = tasks[t].m.iapd)
                 => /\ pfx'.used = pfx.used
                    /\ PrefixesOf(tasks'[t].resp) = PrefixesOf(tasks[s].resp)
                    /\ \A d \in DOMAIN pfx.records :
                         /\ d \in DOMAIN pfx'.records
                         /\ Len(pfx'.records[d]) >= Len(pfx.records[d])
                         /\ \A j \in 1..Len(pfx.records[d]) :
                              pfx'.records[d][j].expire >= pfx.records[d][j].expire]_vars

\* C17: for every DHCPv6 request the prefix handler takes, the response has
\* got exactly one IA_PD option per IA_PD option of the request, in the
\* same order and with the same IaId, and an IA_PD response without an
\* IAPrefix has a StatusCode NoPrefixAvail.
C17_OneIAPDPerRequest ==
    \A t \in TaskIds :
        (/\ tasks[t].m.fam = 6
         /\ \E k \in 1..Len(tasks[t].events) : tasks[t].events[k] = <<"enter", PrefixPos>>)
        => /\ tasks[t].pc # "panic"
           /\ LET out == IAPD(tasks[t].resp)
                  req == tasks[t].m.iapd
              IN  /\ Len(out) = Len(req)
                  /\ \A j \in 1..Len(req) :
                       /\ out[j].iaid = req[j].iaid
                       /\ \/ \E k \in 1..Len(out[j].opts) : out[j].opts[k].kind = "IAPrefix"
                          \/ \E k \in 1..Len(out[j].opts) : out[j].opts[k] = NoPrefixAvail
\* position of the file handler in the chain (0: not configured)
FilePos == IF \E i \in 1..Len(chain) : chain[i] = "file"
           THEN CHOOSE i \in 1..Len(chain) : chain[i] = "file"
           ELSE 0

\* C18: the step in which the file handler handles a DHCPv4 request sets
\* resp.YourIPAddr to the mapped IP when the client hardware address is a key
\* of records4 and leaves the response unchanged otherwise, and in both
\* cases calls next; the handler never ends the chain itself, next is
\* called once, and what next returned is what the handler returns.
C18_FileHandle4 ==
    /\ [][\A t \in TaskIds :
            (Len(tasks'[t].events) > Len(tasks[t].events)
               /\ tasks'[t].events[Len(tasks'[t].events)] = <<"enter", FilePos>>) =>
                  /\ tasks'[t].resp =
                        IF tasks[t].m.mac \in DOMAIN file.records4
                        THEN [tasks[t].resp EXCEPT !.yiaddr = file.records4[tasks[t].m.mac]]
                        ELSE tasks[t].resp
                  /\ tasks'[t].pc = "call"
                  /\ tasks'[t].cl = Tail(tasks[t].cl)
                  /\ tasks'[t].stack = Append(tasks[t].stack, FilePos)]_vars
    /\ [](\A t \in TaskIds :
             /\ tasks[t].stopAt # FilePos
             /\ Cardinality({k \in 1..Len(tasks[t].events) :
                                tasks[t].events[k] = <<"enter", FilePos>>}) <= 1
             /\ (ChainReturned(tasks[t]) =>
                    /\ tasks[t].events[1] = <<"enter", FilePos>>
                    /\ tasks[t].events[Len(tasks[t].events)] = <<"return", FilePos>>
                    /\ tasks[t].res = tasks[t].out))

C18_Witness ==
    /\ Len(tasks) >= 2
    /\ tasks[1].pc = "done"
    /\ tasks[1].sent # NotSent
    /\ tasks[1].sent.msg.yiaddr = "ip1"
    /\ tasks[2].pc = "done"
    /\ tasks[2].sent # NotSent
    /\ tasks[2].sent.msg.yiaddr = "zero"

\* C19: a reload that fails changes neither map and leaves the watcher in
\* its loop; and with autoRefresh, from some point on (the file is no longer
\* rewritten) the maps are exactly what the file's content gives, whenever
\* that content is readable and well-formed.
C19_AutoRefresh ==
    /\ [][(file'.events < file.events /\ file'.load.at = "idle") =>
            /\ file'.records4 = file.records4
            /\ file'.records6 = file.records6
            /\ file'.state = "ok"]_vars
    /\ <>[]((file.state = "ok" /\ file.autoRefresh
               /\ loadRecords_parse(file.disk).err = "nil") =>
                /\ file.records4 = loadRecords_parse(file.disk).records4
                /\ file.records6 = loadRecords_parse(file.disk).records6)

\* a reload failed, a later one succeeded, and the maps differ from the
\* ones Provision loaded
C19_Witness ==
    /\ file.state = "ok"
    /\ file.autoRefresh
    /\ file.failed
    /\ file.reloaded
    /\ file.events = 0
    /\ file.load.at = "idle"
    /\ file.records4 = [k \in {"m1"} |-> "ip2"]
    /\ file.records6 = [k \in {"m1", "m2"} |-> IF k = "m1" THEN "ip2" ELSE "ip6"]

\* C21: with a server DUID configured, serverid's Handle6 returns without
\* calling next and leaves the response as it was when (a) a Solicit,
\* Confirm or Rebind carries a ServerID, (b) another message carries a
\* ServerID that is not the configured DUID, or (c) a Request, Renew,
\* Decline or Release carries no ServerID; in every other case it puts the
\* configured ServerID into the response and calls next.
C21_ServerId6 ==
    [][\A t \in TaskIds :
          (/\ handler_enter(t)
           /\ tasks[t].m.fam = 6
           /\ chain[Head(tasks[t].cl)] = "serverid")
          => LET req  == tasks[t].m
                 i    == Head(tasks[t].cl)
                 drop == \/ req.sid # "none" /\ req.mt \in {"Solicit", "Confirm", "Rebind"}
                         \/ req.sid \notin {"none", "mine"}
                         \/ req.sid = "none" /\ req.mt \in {"Request", "Renew", "Decline", "Release"}
             IN  IF drop
                 THEN /\ tasks'[t].resp = tasks[t].resp
                      /\ tasks'[t].pc = "unwind"
                      /\ tasks'[t].res = "nil"
                      /\ tasks'[t].stopAt = i
                      /\ tasks'[t].stack = tasks[t].stack
                 ELSE /\ tasks'[t].resp = UpdateOption(tasks[t].resp, "ServerID", "mine")
                      /\ tasks'[t].pc = "call"
                      /\ tasks'[t].cl = Tail(tasks[t].cl)
                      /\ tasks'[t].stack = Append(tasks[t].stack, i)]_vars

\* a Rebind naming this server was dropped by serverid, the first handler
C21_Witness ==
    \E t \in TaskIds :
        /\ tasks[t].m.fam = 6
        /\ tasks[t].m.mt = "Rebind"
        /\ tasks[t].m.sid = "mine"
        /\ chain # <<>>
        /\ chain[1] = "serverid"
        /\ tasks[t].stopAt = 1
        /\ tasks[t].events = <<<<"enter", 1>>>>
        /\ tasks[t].pc = "unwind"

\* C28: an access-log entry is written once for every handled request when
\* the server's logs flag is set, and none is written when it is not.
C28_AccessLog ==
    \A t \in TaskIds :
        /\ tasks[t].alog <= 1
        /\ (srv.logs /\ tasks[t].pc = "done" => tasks[t].alog = 1)
        /\ (~srv.logs => tasks[t].alog = 0)

\* position of a handler kind in the chain (0: not configured)
PosOf(kind) == IF \E i \in 1..Len(chain) : chain[i] = kind
               THEN CHOOSE i \in 1..Len(chain) : chain[i] = kind
               ELSE 0

\* the task has entered the handler at position i of the chain
Entered(t, i) == \E k \in 1..Len(tasks[t].events) : tasks[t].events[k] = <<"enter", i>>

\* C22: a DHCPv4 request that entered the autoconfigure handler with an Offer
\* without address: without the Auto-Configure option the chain stops there
\* and nothing is written to the client, with it the response carries the
\* configured value and the chain goes on; with any other response the
\* handler adds nothing and the chain goes on.
C22_Autoconfigure ==
    \A t \in TaskIds :
        LET i     == PosOf("autoconfigure")
            unset == /\ tasks[t].resp.opts["MessageType"] = "Offer"
                     /\ tasks[t].resp.yiaddr = "zero"
        IN  (tasks[t].m.fam = 4 /\ i # 0 /\ Entered(t, i)) =>
               /\ (unset /\ ~tasks[t].m.autoconf =>
                      /\ tasks[t].stopAt = i
                      /\ ~Entered(t, i + 1)
                      /\ ~tasks[t].wcall
                      /\ tasks[t].sent = NotSent)
               /\ (unset /\ tasks[t].m.autoconf =>
                      /\ "AutoConfigure" \in DOMAIN tasks[t].resp.opts
                      /\ tasks[t].resp.opts["AutoConfigure"] = "autoConfigure"
                      /\ tasks[t].stopAt = 0)
               /\ (~unset =>
                      /\ "AutoConfigure" \notin DOMAIN tasks[t].resp.opts
                      /\ tasks[t].stopAt = 0)

\* the handlers that apply to DHCPv4 only
V4Only == {"range", "ipv6only", "leasetime", "netmask", "netmaskB", "router",
           "autoconfigure", "staticroute", "mtu"}

\* C23: calling a handler for the family it does not apply to (Handle6 of a
\* DHCPv4-only handler, Handle4 of the prefix handler) changes neither the
\* request, nor the response, nor the state of any handler, and goes on to
\* next.
C23_OtherFamilyTailCall ==
    [][\A t \in TaskIds :
          (/\ tasks[t].pc = "call"
           /\ tasks[t].cl # <<>>
           /\ \/ tasks[t].m.fam = 6 /\ chain[Head(tasks[t].cl)] \in V4Only
              \/ tasks[t].m.fam = 4 /\ chain[Head(tasks[t].cl)] = "prefix"
           /\ tasks'[t] # tasks[t])
          => /\ tasks'[t].m = tasks[t].m
             /\ tasks'[t].resp = tasks[t].resp
             /\ <<file, rng, pfx>>' = <<file, rng, pfx>>
             /\ tasks'[t].pc = "call"
             /\ tasks'[t].cl = Tail(tasks[t].cl)
             /\ tasks'[t].stack = Append(tasks[t].stack, Head(tasks[t].cl))]_vars

\* how many times the task has entered the handler at position i
TimesEntered(t, i) ==
    Cardinality({k \in 1..Len(tasks[t].events) : tasks[t].events[k] = <<"enter", i>>})

MaskWriters(t) ==
    {i \in 1..Len(chain) : chain[i] \in {"netmask", "netmaskB"} /\ Entered(t, i)}

\* the mask the handler at position i is configured with
MaskOf(i) == IF chain[i] = "netmask" THEN "netmask" ELSE "netmaskB"

\* the positions of the chain whose handler wrote YourIPAddr for task t
AddrWriters(t) ==
    {i \in 1..Len(chain) :
        \/ chain[i] = "file" /\ Entered(t, i) /\ tasks[t].m.mac \in DOMAIN file.records4
        \/ chain[i] = "range" /\ tasks[t].loc.at = "returned" /\ tasks[t].loc.err = "nil"}

\* the address the handler at position i wrote for task t
AddrOf(t, i) == IF chain[i] = "file"
                THEN file.records4[tasks[t].m.mac]
                ELSE tasks[t].loc.rec.ip

\* the largest element of a non-empty set of positions
Last(S) == CHOOSE i \in S : \A j \in S : j <= i

\* C25: in the DHCPv4 reply that is sent, the subnet mask is the one of the
\* last netmask handler of the chain, and YourIPAddr is the address written
\* by the last handler of the chain that wrote one.
C25_LaterWriterWins ==
    \A t \in TaskIds :
        (tasks[t].m.fam = 4 /\ tasks[t].sent # NotSent) =>
           /\ (MaskWriters(t) # {} =>
                  tasks[t].sent.msg.opts["SubnetMask"] = MaskOf(Last(MaskWriters(t))))
           /\ (AddrWriters(t) # {} =>
                  tasks[t].sent.msg.yiaddr = AddrOf(t, Last(AddrWriters(t))))

\* two netmask handlers wrote the option and the reply was sent
C25_Witness ==
    \E t \in TaskIds :
        /\ chain = <<"netmask", "netmaskB">>
        /\ tasks[t].m.fam = 4
        /\ Entered(t, 1)
        /\ Entered(t, 2)
        /\ tasks[t].sent # NotSent
        /\ tasks[t].sent.msg.opts["SubnetMask"] = "netmaskB"

\* C26: after a DHCPv4 request went through the leasetime handler, the
\* response carries the lease-time option exactly when the request has
\* op-code BootRequest and asks for that option; the handler does not stop
\* the chain.
C26_LeaseTime ==
    \A t \in TaskIds :
        LET i == PosOf("leasetime")
        IN  (tasks[t].m.fam = 4 /\ i # 0 /\ Entered(t, i)) =>
               /\ tasks[t].stopAt # i
               /\ ("IPAddressLeaseTime" \in DOMAIN tasks[t].resp.opts
                     <=> (/\ tasks[t].m.op = "BootRequest"
                          /\ "IPAddressLeaseTime" \in tasks[t].m.requested))

\* the option each of these handlers is configured to give
OwnOption ==
    [mtu |-> "InterfaceMTU", router |-> "Router", dns |-> "DomainNameServer",
     searchdomains |-> "DNSDomainSearchList", staticroute |-> "ClasslessStaticRoute"]

\* C27: after a DHCPv4 request went through an mtu, router, dns,
\* searchdomains or staticroute handler, the response carries that handler's
\* option exactly when the request asks for that option code; after a
\* netmask handler it carries the subnet mask in every case; none of them
\* stops the chain.
C27_OptionWhenRequested ==
    \A t \in TaskIds :
        \A i \in 1..Len(chain) :
            (tasks[t].m.fam = 4 /\ Entered(t, i)) =>
               /\ (chain[i] \in DOMAIN OwnOption =>
                      /\ tasks[t].stopAt # i
                      /\ (OwnOption[chain[i]] \in DOMAIN tasks[t].resp.opts
                            <=> OwnOption[chain[i]] \in tasks[t].m.requested))
               /\ (chain[i] = "netmask" =>
                      /\ tasks[t].stopAt # i
                      /\ "SubnetMask" \in DOMAIN tasks[t].resp.opts)

\* C29: when lookup4 finds a record of the MAC that expires before
\* now + LeaseTime and persists its renewal, the record of the MAC in records4
\* and the row of the database both carry the expiry now + LeaseTime and the
\* host name of the request; when the record does not expire before
\* now + LeaseTime, map and database are left as they were.
C29_RenewUpdatesRecord ==
    [][\A t \in TaskIds :
          lookup4_renew(t) =>
             LET mac == tasks[t].m.mac
                 rec == tasks[t].loc.rec
             IN  IF rec.expires < now + LeaseTime
                 THEN tasks'[t].loc.wrote =>
                         /\ rng'.records4[mac].expires = now + LeaseTime
                         /\ rng'.records4[mac].hostname = tasks[t].m.hostname
                         /\ \E r \in rng'.db :
                               /\ r.mac = mac
                               /\ r.ip = rec.ip
                               /\ r.expiry = now + LeaseTime
                               /\ r.hostname = tasks[t].m.hostname
                 ELSE rng' = rng]_vars

\* C30: once the range module is provisioned, the address of every row of
\* the lease database is used in the allocator and the records hold
\* addresses of the range, no two the same; a request is handled only when
\* the module is provisioned.
C30_Preload ==
    /\ (tasks # <<>> => rng.state = "ok")
    /\ (rng.state = "ok" =>
           /\ \A r \in rng.db : r.ip \in rng.used
           /\ \A m1 \in DOMAIN rng.records4 :
                 /\ rng.records4[m1].ip \in Pool4
                 /\ \A m2 \in DOMAIN rng.records4 :
                       rng.records4[m1].ip = rng.records4[m2].ip => m1 = m2)

\* task t is inside lookup4's critical section: it has taken the lock of
\* recLock and has not yet run the deferred unlock
InLookup(t) == tasks[t].pc = "lookup"

\* C31: while a lookup4 that has written records4 or the database is inside
\* its critical section, no other lookup4 is inside its critical section.
C31_ExclusiveWriter ==
    \A t, u \in TaskIds :
        (t # u /\ InLookup(t) /\ tasks[t].loc.wrote) => ~InLookup(u)

\* C32: when a DHCPv6 request enters the prefix handler, the lock that
\* guards records and the records map exist, and the handler takes the lock
\* and goes through its passes under it: the task does not end in a panic.
C32_PrefixLock ==
    \A t \in TaskIds :
        (tasks[t].m.fam = 6 /\ PrefixPos # 0 /\ Entered(t, PrefixPos)) =>
           /\ pfx.recLock
           /\ pfx.made
           /\ tasks[t].pc # "panic"

\* the prefixes of the leases of records[duid]
LeasedTo(m, duid) ==
    IF duid \in DOMAIN m.records
    THEN {m.records[duid][k].prefix : k \in 1..Len(m.records[duid])}
    ELSE {}

\* C33: the step in which the prefix handler handles a DHCPv6 request does
\* not fail, every prefix it takes from the allocator is afterwards the
\* prefix of a lease of records[duid] that expires at now + leaseTime, and
\* every prefix of a lease of records is used in the allocator.
C33_PassC ==
    [][\A t \in TaskIds :
          prefix_Handle6(t) =>
            /\ tasks'[t].pc # "panic"
            /\ \A p \in pfx'.used \ pfx.used :
                  \E k \in 1..Len(pfx'.records[tasks[t].m.duid]) :
                     /\ pfx'.records[tasks[t].m.duid][k].prefix = p
                     /\ pfx'.records[tasks[t].m.duid][k].expire = now + PrefixLeaseTime
            /\ \A d \in DOMAIN pfx'.records : LeasedTo(pfx', d) \subseteq pfx'.used]_vars

\* the empty prefix, &net.IPNet{}
EmptyNet == [def |-> TRUE, ip |-> "nil", len |-> 0]

\* C34: samePrefix gives true only for two defined prefixes of equal IP and
\* equal mask, and gives false whenever one of the two is the empty prefix,
\* also when both are.
C34_SamePrefix ==
    cmp.res # "none" =>
       /\ (cmp.res = "true" =>
              /\ cmp.a.def
              /\ cmp.b.def
              /\ cmp.a.ip = cmp.b.ip
              /\ cmp.a.len = cmp.b.len)
       /\ (cmp.a = EmptyNet \/ cmp.b = EmptyNet => cmp.res = "false")

\* C35: no lookup of the file handler runs between the two assignments of a
\* reload: when a request is looked up, records4 and records6 are both of
\* the last completed load.
C35_AtomicReload ==
    [][\A t \in TaskIds :
          (file_Handle4(t) \/ file_Handle6(t)) => file.load.at # "swap6"]_vars

\* C36: when two requests of one MAC that had no record have both come out
\* of lookup4 without error, they were given the same address, and as many
\* allocator slots are used as there are records in records4.
C36_OneAddressPerMac ==
    \A t, u \in TaskIds :
        (/\ t # u
         /\ tasks[t].m.mac = tasks[u].m.mac
         /\ tasks[t].loc.at = "returned" /\ tasks[t].loc.err = "nil"
         /\ tasks[u].loc.at = "returned" /\ tasks[u].loc.err = "nil"
         /\ ~tasks[t].loc.found /\ ~tasks[u].loc.found)
        => /\ tasks[t].loc.rec.ip = tasks[u].loc.rec.ip
           /\ Cardinality(rng.used) = Cardinality(DOMAIN rng.records4)

\* C37: the step of lookup4 in which persisting a newly allocated lease
\* fails ends the lookup with an error, adds no record to records4, and gives
\* the address back: the allocator's used set is as it was before the
\* address was taken.
C37_SaveFailureReleases ==
    [][\A t \in TaskIds :
          (lookup4_save(t) /\ tasks'[t].loc.err = "ErrSave") =>
             /\ rng'.records4 = rng.records4
             /\ rng'.db = rng.db
             /\ tasks[t].loc.rec.ip \notin rng'.used]_vars

IAPrefixes(opts) == {k \in 1..Len(opts) : opts[k].kind = "IAPrefix"}

C40_BindFailure ==
    [][/\ (app # "failed" /\ app' = "failed") =>
             /\ Len(conns) < Len(Addresses)
             /\ conns' = conns
             /\ ltask' = ltask
       /\ app = "failed" =>
             /\ app' = "failed"
             /\ Len(conns') = Len(conns)
             /\ Len(ltask') = Len(ltask)
             /\ \A l \in ConnIds :
                   /\ (~conns[l].closed /\ conns'[l].closed) =>
                          (stop' # stop \/ ltask'[l].err = "ErrRead")
                   /\ (ltask[l].pc = "reading" /\ ltask'[l].pc = "exited") =>
                          (conns[l].closed \/ ltask'[l].err = "ErrRead")]_vars

\* Start failed on the second address; the first listener is still reading
\* on its open connection and has had a request answered
C40_Witness ==
    /\ app = "failed"
    /\ Len(conns) = 1
    /\ ~conns[1].closed
    /\ ltask[1].pc = "reading"
    /\ stop.pc = "idle"
    /\ \E t \in TaskIds : tasks[t].pc = "done" /\ tasks[t].sent # NotSent

====
